---- MODULE Spec2Model ----
(***************************************************************************)
(* A model of the namespace-sharded embedding store of rag_api:            *)
(*   app/services/database.py          (pool, schema manager, index repair)*)
(*   app/services/vector_store/namespace_pg_vector.py (NamespacePgVector)  *)
(* Strings the code inspects character by character (namespaces, file ids, *)
(* sources, chunk ids) are sequences of one-character strings.             *)
(***************************************************************************)
EXTENDS Integers, Sequences, FiniteSets, TLC

VARIABLES
    pool,       \* PSQLDatabase.pool: 0 is None, n > 0 is the n-th pool created
    poolsMade,  \* how many pools asyncpg.create_pool has built so far
    poolsOpen,  \* the pools built and not yet closed
    tables,     \* table name -> the table's schema state and rows
    now,        \* CURRENT_TIMESTAMP of the database
    uuids,      \* how many identities uuid4 has generated
    faults,     \* how many statements the server has failed for reasons of its own
    pc,         \* task -> the await the task is suspended at
    call,       \* task -> the operation it runs and its arguments
    data,       \* task -> data_with_embeddings of its upsert (of a store being
                \* built: its self.safe_namespace)
    conns,      \* task -> connections it holds from the pool
    frames,     \* task -> return addresses of create_namespace_table calls
    uq,         \* task -> locals of _ensure_unique_index_on_chunk_id
    got,        \* task -> the pool get_pool handed to it (0: none yet)
    outcome,    \* task -> "none", "ok" or "raised" for its current operation
    writes,     \* task -> the executemany writes of its upsert, in order (of a
                \* store being built: create_namespace_table's safe_namespace)
    result,     \* task -> what its read operation returns
    ensured,    \* tables for which create_*_table has returned successfully
    lastDone,   \* the last completed upsert and the tables it left
    calls,      \* how many operations other than reads have been started
    upsertsOnly \* every operation so far was an upsert_documents that did not raise

vars == <<pool, poolsMade, poolsOpen, tables, now, uuids, faults, pc,
          call, data, conns, frames, uq, got, outcome, writes, result, ensured,
          lastDone, calls, upsertsOnly>>

-----------------------------------------------------------------------------
(* Bounds of the model. *)

MaxUuid == 2
MaxCalls == 2
PoolSize == 2
MaxPools == 3
MaxPoolCalls == 6
MaxFaults == 1
MaxLegacy == 3
MaxTime == 1

-----------------------------------------------------------------------------
(* Strings. *)

UpperCase == <<"A","B","C","D","E","F","G","H","I","J","K","L","M",
               "N","O","P","Q","R","S","T","U","V","W","X","Y","Z">>
LowerCase == <<"a","b","c","d","e","f","g","h","i","j","k","l","m",
               "n","o","p","q","r","s","t","u","v","w","x","y","z">>
DigitChars == <<"0","1","2","3","4","5","6","7","8","9">>

\* str.lower() on one character
LowerChar(c) ==
    IF \E i \in DOMAIN UpperCase : UpperCase[i] = c
    THEN LowerCase[CHOOSE i \in DOMAIN UpperCase : UpperCase[i] = c]
    ELSE c

Lower(s) == [i \in DOMAIN s |-> LowerChar(s[i])]

\* str.replace(a, b) for one-character a and b
Replace(s, a, b) == [i \in DOMAIN s |-> IF s[i] = a THEN b ELSE s[i]]

\* sub in s
Contains(sub, s) ==
    \E i \in 0..(Len(s) - Len(sub)) : SubSeq(s, i + 1, i + Len(sub)) = sub

_sanitize_namespace(namespace) ==
    Replace(Replace(Replace(Replace(Lower(namespace), "-", "_"), " ", "_"), ".", "_"), "@", "_")

\* a sanitizer that leaves '@' in place
SafeNamespaceKeepingAt(namespace) ==
    Replace(Replace(Replace(Lower(namespace), "-", "_"), " ", "_"), ".", "_")

\* the sanitizer written out again inside create_namespace_table
safe_namespace_of(namespace) ==
    Replace(Replace(Replace(Replace(Lower(namespace), "-", "_"), " ", "_"), ".", "_"), "@", "_")

\* str(x) of one embedding component
StrOf(x) == DigitChars[x + 1]

RECURSIVE JoinComma(_)
JoinComma(parts) ==
    IF Len(parts) = 0 THEN <<>>
    ELSE IF Len(parts) = 1 THEN <<parts[1]>>
    ELSE <<parts[1], ",">> \o JoinComma(Tail(parts))

_embedding_to_pgvector_string(embedding) ==
    <<"[">> \o JoinComma([i \in DOMAIN embedding |-> StrOf(embedding[i])]) \o <<"]">>

\* pgvector's input function: the text form of a vector back to the vector
DigitValue(c) == (CHOOSE i \in DOMAIN DigitChars : DigitChars[i] = c) - 1

VectorIn(s) ==
    LET inner == SubSeq(s, 2, Len(s) - 1)
    IN  [i \in 1..((Len(inner) + 1) \div 2) |-> DigitValue(inner[2 * i - 1])]

-----------------------------------------------------------------------------
(* Values. *)

Null == <<"NULL">>          \* SQL NULL
Empty == <<>>               \* ''

General == <<"g","e","n","e","r","a","l">>
Totalsoft == <<"t","o","t","a","l","s","o","f","t">>
Embeddings == <<"e","m","b","e","d","d","i","n","g","s">>

NsAlice == <<"a","l","i","c","e">>
NsExempt == <<"T","o","t","a","l","S","o","f","t">>
NsGeneralCaps == <<"G","e","n","e","r","a","l">>

C1id == <<"c","1">>
C2id == <<"c","2">>
F1 == <<"f","1">>
F2 == <<"f","2">>
S1 == <<"s","1">>
S2 == <<"d","/","s">>

\* uuid4(): the n-th generated identity
Uuid(n) == <<"u", DigitChars[n + 1]>>

\* the embedding function, injected into the store: text -> vector
embed_query(text) ==
    CASE text = "ta" -> <<1, 0>>
      [] text = "tb" -> <<0, 1>>
      [] OTHER -> <<1, 1>>

embed_documents(texts) == [i \in DOMAIN texts |-> embed_query(texts[i])]

\* langchain Documents: page_content and a metadata dict (keys may be absent)
DocA == [page_content |-> "ta",
         metadata |-> [chunk_id |-> C1id, file_id |-> F1, source |-> S1, chunk_index |-> 3]]
DocB == [page_content |-> "tb",
         metadata |-> [chunk_id |-> C1id, file_id |-> F2, source |-> S2, chunk_index |-> 4]]
DocC == [page_content |-> "ta",
         metadata |-> [chunk_id |-> C2id, file_id |-> F1, source |-> S1]]
DocD == [page_content |-> "tb",
         metadata |-> [chunk_id |-> Empty, source |-> S2]]

\* upsert requests: the documents and the chunk_indices argument (<<>> is None)
Requests ==
    {[documents |-> <<>>, chunk_indices |-> <<>>],
     [documents |-> <<DocA>>, chunk_indices |-> <<>>],
     [documents |-> <<DocB>>, chunk_indices |-> <<7>>],
     [documents |-> <<DocA, DocB>>, chunk_indices |-> <<>>],
     [documents |-> <<DocC, DocD>>, chunk_indices |-> <<>>]}

NoIndices == <<>>

Tasks == {"t1", "t2"}

\* dict.get(key, default)
Get(md, key, default) == IF key \in DOMAIN md THEN md[key] ELSE default

-----------------------------------------------------------------------------
(* The database: tables, rows and the SQL statements the code issues. *)

Namespaces == {General, NsAlice, NsExempt, NsGeneralCaps}

TableNames == {Embeddings} \cup {_sanitize_namespace(n) : n \in Namespaces}

NoTable == [exists |-> FALSE, cols |-> {}, idx |-> {}, uniq |-> FALSE, rows |-> <<>>]

\* CREATE TABLE ... (id, chunk_id, file_id, source, chunk_index, text,
\*                   embedding, namespace, created_at)
CreatedTable ==
    [exists |-> TRUE, cols |-> {"namespace", "file_id"}, idx |-> {}, uniq |-> FALSE,
     rows |-> <<>>]

\* two rows hold the same (non-NULL) chunk_id: what a unique index forbids
HasDuplicates(rows) ==
    \E i, j \in DOMAIN rows :
        i # j /\ rows[i].chunk_id = rows[j].chunk_id /\ rows[i].chunk_id # Null

\* INSERT ... VALUES ($1..$7): created_at takes its default
InsertedRow(v, ts) ==
    [chunk_id |-> v[1], file_id |-> v[2], source |-> v[3], chunk_index |-> v[4],
     text |-> v[5], embedding |-> VectorIn(v[6]), namespace |-> v[7], created_at |-> ts]

\* a DO UPDATE SET list that leaves out namespace = EXCLUDED.namespace
DoUpdateSetWithoutNamespace(row, v) ==
    [row EXCEPT !.file_id = v[2], !.source = v[3], !.chunk_index = v[4],
                !.text = v[5], !.embedding = VectorIn(v[6])]

\* a DO UPDATE SET list that also moves created_at
DoUpdateSetAndCreatedAt(row, v) ==
    [row EXCEPT !.file_id = v[2], !.source = v[3], !.chunk_index = v[4],
                !.text = v[5], !.embedding = VectorIn(v[6]), !.namespace = v[7],
                !.created_at = @ + 1]

\* ON CONFLICT (chunk_id) DO UPDATE SET file_id = EXCLUDED.file_id, ...
DoUpdateSet(row, v) ==
    [row EXCEPT !.file_id = v[2], !.source = v[3], !.chunk_index = v[4],
                !.text = v[5], !.embedding = VectorIn(v[6]), !.namespace = v[7]]

\* a plain INSERT, with no ON CONFLICT clause and no index to stop it
InsertAlways(rows, v, ts) == Append(rows, InsertedRow(v, ts))

\* INSERT ... ON CONFLICT (chunk_id) DO UPDATE ..., one parameter tuple
InsertOnConflict(rows, v, ts) ==
    IF \E i \in DOMAIN rows : rows[i].chunk_id = v[1]
    THEN [i \in DOMAIN rows |->
            IF rows[i].chunk_id = v[1] THEN DoUpdateSet(rows[i], v) ELSE rows[i]]
    ELSE Append(rows, InsertedRow(v, ts))

\* conn.executemany(statement, values): the tuples in order
RECURSIVE executemany(_, _, _)
executemany(rows, values, ts) ==
    IF values = <<>> THEN rows
    ELSE executemany(InsertOnConflict(rows, Head(values), ts), Tail(values), ts)

\* the statement can run: the table is there, and ON CONFLICT (chunk_id) finds
\* the unique index it needs
CanUpsert(tb) == tb.exists /\ tb.uniq

\* row_number() OVER (PARTITION BY chunk_id ORDER BY created_at DESC, ctid DESC);
\* a row's place in the sequence is its ctid
RowNumber(rows, i) ==
    1 + Cardinality({j \in DOMAIN rows :
            /\ rows[j].chunk_id = rows[i].chunk_id
            /\ \/ rows[j].created_at > rows[i].created_at
               \/ rows[j].created_at = rows[i].created_at /\ j > i})

RECURSIVE KeepAt(_, _, _)
KeepAt(rows, kept, i) ==
    IF i > Len(rows) THEN <<>>
    ELSE (IF i \in kept THEN <<rows[i]>> ELSE <<>>) \o KeepAt(rows, kept, i + 1)

\* a ranking ORDER BY created_at ASC, ctid ASC: the oldest row of a group stays
DeduplicateKeepingOldest(rows) ==
    KeepAt(rows, {i \in DOMAIN rows : RowNumber(rows, i)
                    = Cardinality({j \in DOMAIN rows : rows[j].chunk_id = rows[i].chunk_id})}, 1)

\* DELETE FROM t USING ranked r WHERE t.ctid = r.ctid AND r.rn > 1
_deduplicate_chunk_id(rows) ==
    KeepAt(rows, {i \in DOMAIN rows : RowNumber(rows, i) = 1}, 1)

-----------------------------------------------------------------------------
(* NamespacePgVector.upsert_documents: the data it prepares. *)

\* how many documents of the batch get a generated identity
RECURSIVE Generated(_)
Generated(docs) ==
    IF docs = <<>> THEN 0
    ELSE (IF Get(Head(docs).metadata, "chunk_id", Empty) = Empty THEN 1 ELSE 0)
         + Generated(Tail(docs))

\* data_with_embeddings; i counts from 0 as enumerate does
\* a data_item whose generated identity is the same on every call
DataItemOneUuid(namespace, docs, chunk_indices, embeddings, first, i) ==
    LET doc == docs[i + 1]
        given == Get(doc.metadata, "chunk_id", Empty)
    IN  [chunk_id |-> IF given = Empty THEN Uuid(1) ELSE given,
         file_id |-> Get(doc.metadata, "file_id", Empty),
         source |-> Get(doc.metadata, "source", Empty),
         chunk_index |-> IF chunk_indices # NoIndices THEN chunk_indices[i + 1]
                         ELSE Get(doc.metadata, "chunk_index", i),
         text |-> doc.page_content,
         embedding |-> embeddings[i + 1],
         namespace |-> namespace]

DataItem(namespace, docs, chunk_indices, embeddings, first, i) ==
    LET doc == docs[i + 1]
        given == Get(doc.metadata, "chunk_id", Empty)
    IN  [chunk_id |-> IF given = Empty
                      THEN Uuid(first + Generated(SubSeq(docs, 1, i + 1)))
                      ELSE given,
         file_id |-> Get(doc.metadata, "file_id", Empty),
         source |-> Get(doc.metadata, "source", Empty),
         chunk_index |-> IF chunk_indices # NoIndices THEN chunk_indices[i + 1]
                         ELSE Get(doc.metadata, "chunk_index", i),
         text |-> doc.page_content,
         embedding |-> embeddings[i + 1],
         namespace |-> namespace]

data_with_embeddings(namespace, docs, chunk_indices, first) ==
    LET embeddings == embed_documents([i \in DOMAIN docs |-> docs[i].page_content])
    IN  [k \in DOMAIN docs |->
            DataItem(namespace, docs, chunk_indices, embeddings, first, k - 1)]

\* values = [(chunk_id, file_id, source, chunk_index, text, vector string, self.namespace)]
ValuesOf(items, namespace) ==
    [k \in DOMAIN items |->
        <<items[k].chunk_id, items[k].file_id, items[k].source, items[k].chunk_index,
          items[k].text, _embedding_to_pgvector_string(items[k].embedding), namespace>>]

\* general_values that keep the namespace of the store
GeneralValuesUnderOwnNamespace(values) == values

\* general_values: the same tuples with the namespace replaced by 'general'
GeneralValues(values) ==
    [k \in DOMAIN values |->
        <<values[k][1], values[k][2], values[k][3], values[k][4], values[k][5],
          values[k][6], General>>]

\* a condition that is copy_to_general alone
CopiesWheneverAsked(copy_to_general, namespace) == copy_to_general

\* copy_to_general and self.namespace != 'general' and 'totalsoft' not in self.namespace.lower()
CopiesToGeneral(copy_to_general, namespace) ==
    copy_to_general /\ namespace # General /\ ~Contains(Totalsoft, Lower(namespace))

-----------------------------------------------------------------------------
(* Tasks. Each action is what a task does from one await to the next: the  *)
(* effect of the statement it was suspended in, then the code up to the    *)
(* next await.                                                             *)

NoCall == [op |-> "none"]
\* the locals of _ensure_unique_index_on_chunk_id, and what its statements did so far
NoUq == [table |-> <<>>, after |-> "none", trail |-> <<>>]
NoGot == [pool |-> 0, then |-> "none"]
NoDone == [valid |-> FALSE]
NoResult == [documents |-> <<>>, count |-> 0]

RECURSIVE SumOver(_, _)
SumOver(f, S) ==
    IF S = {} THEN 0
    ELSE LET x == CHOOSE y \in S : TRUE IN f[x] + SumOver(f, S \ {x})

FreeConns == PoolSize - SumOver(conns, Tasks)

\* the tables an upsert or delete of this store addresses
safe_namespace(t) == _sanitize_namespace(call[t].namespace)

\* a get_pool without its `if cls.pool is None`: it creates a pool on every call
GetPoolWithoutCheck(t, k) ==
    /\ got' = [got EXCEPT ![t] = [pool |-> 0, then |-> k]]
    /\ pc' = [pc EXCEPT ![t] = "gp_create"]

\* PSQLDatabase.get_pool as called by task t, which goes on at label k once it
\* has the pool: with a pool in place it returns at once
get_pool(t, k) ==
    IF pool # 0
    THEN /\ got' = [got EXCEPT ![t] = [pool |-> pool, then |-> "none"]]
         /\ pc' = [pc EXCEPT ![t] = k]
    ELSE /\ got' = [got EXCEPT ![t] = [pool |-> 0, then |-> k]]
         /\ pc' = [pc EXCEPT ![t] = "gp_create"]

\* cls.pool = await asyncpg.create_pool(...); return cls.pool
GetPoolCreated(t) ==
    /\ pc[t] = "gp_create"
    /\ poolsMade < MaxPools
    /\ poolsMade' = poolsMade + 1
    /\ pool' = poolsMade + 1
    /\ poolsOpen' = poolsOpen \cup {poolsMade + 1}
    /\ got' = [got EXCEPT ![t] = [pool |-> poolsMade + 1, then |-> "none"]]
    /\ pc' = [pc EXCEPT ![t] = got[t].then]
    /\ outcome' = [outcome EXCEPT ![t] = IF got[t].then = "done" THEN "ok" ELSE @]
    /\ UNCHANGED <<tables, now, result, uuids, faults, call, data, conns, frames, uq,
                   writes, ensured, lastDone, calls, upsertsOnly>>

\* an exception leaves every `async with pool.acquire()` block of the task
Raised(t) ==
    /\ pc' = [pc EXCEPT ![t] = "done"]
    /\ outcome' = [outcome EXCEPT ![t] = "raised"]
    /\ conns' = [conns EXCEPT ![t] = 0]
    /\ frames' = [frames EXCEPT ![t] = <<>>]

\* the operation is over: its locals go, the task can take another call
Return(t) ==
    /\ pc[t] = "done"
    /\ pc' = [pc EXCEPT ![t] = "idle"]
    /\ lastDone' = IF /\ call[t].op = "upsert_documents"
                      /\ outcome[t] = "ok"
                      /\ \A o \in Tasks \ {t} : pc[o] = "idle"
                   THEN [valid |-> TRUE, call |-> call[t], tables |-> tables]
                   ELSE NoDone
    /\ call' = [call EXCEPT ![t] = NoCall]
    /\ data' = [data EXCEPT ![t] = <<>>]
    /\ uq' = [uq EXCEPT ![t] = NoUq]
    /\ got' = [got EXCEPT ![t] = NoGot]
    /\ outcome' = [outcome EXCEPT ![t] = "none"]
    /\ writes' = [writes EXCEPT ![t] = <<>>]
    /\ result' = [result EXCEPT ![t] = NoResult]
    /\ UNCHANGED <<pool, poolsMade, poolsOpen, tables, now, uuids, faults,
                   conns, frames, ensured, calls>>
    /\ upsertsOnly' = (upsertsOnly /\ call[t].op = "upsert_documents" /\ outcome[t] = "ok")

-----------------------------------------------------------------------------
(* NamespacePgVector.upsert_documents and _upsert_to_postgres. *)

\* an upsert_documents without `if not documents: return`
UpsertDocumentsUnguarded(t, namespace, documents, chunk_indices, copy_to_general) ==
    /\ pc[t] = "idle"
    /\ calls < MaxCalls
    /\ uuids + Generated(documents) <= MaxUuid
    /\ calls' = calls + 1
    /\ call' = [call EXCEPT ![t] =
                  [op |-> "upsert_documents", namespace |-> namespace,
                   documents |-> documents, chunk_indices |-> chunk_indices,
                   copy_to_general |-> copy_to_general, replay |-> FALSE]]
    /\ pc' = [pc EXCEPT ![t] = "u_embed"]
    /\ UNCHANGED <<pool, poolsMade, poolsOpen, tables, now, result, uuids, faults, data,
                   conns, frames, uq, got, writes, ensured, lastDone, upsertsOnly, outcome>>

upsert_documents(t, namespace, documents, chunk_indices, copy_to_general) ==
    /\ pc[t] = "idle"
    /\ calls < MaxCalls
    /\ uuids + Generated(documents) <= MaxUuid
    /\ calls' = calls + 1
    /\ call' = [call EXCEPT ![t] =
                  [op |-> "upsert_documents", namespace |-> namespace,
                   documents |-> documents, chunk_indices |-> chunk_indices,
                   copy_to_general |-> copy_to_general,
                   replay |-> lastDone.valid /\ lastDone.call.namespace = namespace
                              /\ lastDone.call.documents = documents
                              /\ lastDone.call.chunk_indices = chunk_indices
                              /\ lastDone.call.copy_to_general = copy_to_general]]
    /\ IF documents = <<>>
       THEN /\ pc' = [pc EXCEPT ![t] = "done"]          \* if not documents: return
            /\ outcome' = [outcome EXCEPT ![t] = "ok"]
       ELSE /\ pc' = [pc EXCEPT ![t] = "u_embed"]       \* await asyncio.to_thread(...)
            /\ UNCHANGED outcome
    /\ UNCHANGED <<pool, poolsMade, poolsOpen, tables, now, result, uuids, faults, data,
                   conns, frames, uq, got, writes, ensured, lastDone, upsertsOnly>>



\* an _upsert_to_postgres that goes to its writes without create_namespace_table
UpsertPrepareWithoutEnsure(t) ==
    /\ pc[t] = "u_embed"
    /\ data' = [data EXCEPT ![t] =
                  data_with_embeddings(call[t].namespace, call[t].documents,
                                       call[t].chunk_indices, uuids)]
    /\ uuids' = uuids + Generated(call[t].documents)
    /\ get_pool(t, "u_acquire")
    /\ UNCHANGED <<pool, poolsMade, poolsOpen, tables, now, result, faults, call, conns,
                   frames, uq, outcome, writes, ensured, lastDone, calls, upsertsOnly>>

\* the embeddings are back: prepare the data, enter _upsert_to_postgres, which
\* gets the pool and calls create_namespace_table(self.namespace)
UpsertPrepare(t) ==
    /\ pc[t] = "u_embed"
    /\ data' = [data EXCEPT ![t] =
                  data_with_embeddings(call[t].namespace, call[t].documents,
                                       call[t].chunk_indices, uuids)]
    /\ uuids' = uuids + Generated(call[t].documents)
    /\ frames' = [frames EXCEPT ![t] =
                    <<[ret |-> "u_acquire", namespace |-> call[t].namespace]>>]
    /\ get_pool(t, "cnt_acquire")
    /\ UNCHANGED <<pool, poolsMade, poolsOpen, tables, now, result, faults, call, conns,
                   uq, outcome, writes, ensured, lastDone, calls, upsertsOnly>>

\* async with pool.acquire() as conn: values = [...]; the first executemany is issued
UpsertAcquire(t) ==
    /\ pc[t] = "u_acquire"
    /\ FreeConns > 0
    /\ conns' = [conns EXCEPT ![t] = @ + 1]
    /\ pc' = [pc EXCEPT ![t] = "u_main"]
    /\ UNCHANGED <<pool, poolsMade, poolsOpen, tables, now, result, uuids, faults, call,
                   data, frames, uq, got, outcome, writes, ensured, lastDone, calls, upsertsOnly>>

\* one executemany of the upsert statement against a table
UpsertInto(t, table, values) ==
    /\ CanUpsert(tables[table])
    /\ tables' = [tables EXCEPT ![table].rows = executemany(@, values, now)]
    /\ writes' = [writes EXCEPT ![t] = Append(@, [table |-> table, values |-> values])]

\* INSERT INTO {DB_SCHEMA}.embeddings ... ON CONFLICT (chunk_id) DO UPDATE
UpsertMain(t) ==
    /\ pc[t] = "u_main"
    /\ UpsertInto(t, Embeddings, ValuesOf(data[t], call[t].namespace))
    /\ pc' = [pc EXCEPT ![t] = "u_ns"]
    /\ UNCHANGED <<pool, poolsMade, poolsOpen, now, result, uuids, faults, call, data,
                   conns, frames, uq, got, outcome, ensured, lastDone, calls, upsertsOnly>>

\* the main table is missing, or has no unique index for ON CONFLICT (chunk_id)
\* to name: the statement raises
UpsertMainFails(t) ==
    /\ pc[t] = "u_main"
    /\ ~CanUpsert(tables[Embeddings])
    /\ Raised(t)
    /\ UNCHANGED <<pool, poolsMade, poolsOpen, tables, now, result, uuids, faults, call, data,
                   uq, got, writes, ensured, lastDone, calls, upsertsOnly>>

\* INSERT INTO {DB_SCHEMA}.{self.safe_namespace} ...; then either the copy to
\* 'general' starts with create_namespace_table('general'), or the upsert is over
UpsertNamespace(t) ==
    /\ pc[t] = "u_ns"
    /\ UpsertInto(t, safe_namespace(t), ValuesOf(data[t], call[t].namespace))
    /\ IF CopiesToGeneral(call[t].copy_to_general, call[t].namespace)
       THEN /\ frames' = [frames EXCEPT ![t] =
                            <<[ret |-> "u_gen_main", namespace |-> General]>>]
            /\ get_pool(t, "cnt_acquire")
            /\ UNCHANGED <<conns, outcome>>
       ELSE /\ pc' = [pc EXCEPT ![t] = "done"]
            /\ outcome' = [outcome EXCEPT ![t] = "ok"]
            /\ conns' = [conns EXCEPT ![t] = @ - 1]
            /\ UNCHANGED <<frames, got>>
    /\ UNCHANGED <<pool, poolsMade, poolsOpen, now, result, uuids, faults, call, data,
                   uq, ensured, lastDone, calls, upsertsOnly>>

\* INSERT INTO {DB_SCHEMA}.embeddings ... with general_values
UpsertGeneralMain(t) ==
    /\ pc[t] = "u_gen_main"
    /\ UpsertInto(t, Embeddings, GeneralValues(ValuesOf(data[t], call[t].namespace)))
    /\ pc' = [pc EXCEPT ![t] = "u_gen_ns"]
    /\ UNCHANGED <<pool, poolsMade, poolsOpen, now, result, uuids, faults, call, data,
                   conns, frames, uq, got, outcome, ensured, lastDone, calls, upsertsOnly>>

\* INSERT INTO {DB_SCHEMA}.general ... with general_values; the connection goes back
UpsertGeneralNamespace(t) ==
    /\ pc[t] = "u_gen_ns"
    /\ UpsertInto(t, General, GeneralValues(ValuesOf(data[t], call[t].namespace)))
    /\ pc' = [pc EXCEPT ![t] = "done"]
    /\ outcome' = [outcome EXCEPT ![t] = "ok"]
    /\ conns' = [conns EXCEPT ![t] = @ - 1]
    /\ UNCHANGED <<pool, poolsMade, poolsOpen, now, result, uuids, faults, call, data,
                   frames, uq, got, ensured, lastDone, calls, upsertsOnly>>

-----------------------------------------------------------------------------
(* create_namespace_table and _ensure_unique_index_on_chunk_id. *)

\* the table create_namespace_table(namespace) of the task's top frame works on
FrameTable(t) == safe_namespace_of(frames[t][1].namespace)

\* async with pool.acquire() as conn: CREATE SCHEMA IF NOT EXISTS is issued
CreateNamespaceAcquire(t) ==
    /\ pc[t] = "cnt_acquire"
    /\ FreeConns > 0
    /\ conns' = [conns EXCEPT ![t] = @ + 1]
    /\ pc' = [pc EXCEPT ![t] = "cnt_table"]
    /\ UNCHANGED <<pool, poolsMade, poolsOpen, tables, now, result, uuids, faults, call,
                   data, frames, uq, got, outcome, writes, ensured, lastDone, calls, upsertsOnly>>

\* CREATE TABLE IF NOT EXISTS {DB_SCHEMA}.{safe_namespace} (...)
CreateNamespaceTable(t) ==
    /\ pc[t] = "cnt_table"
    /\ tables' = [tables EXCEPT ![FrameTable(t)] = IF @.exists THEN @ ELSE CreatedTable]
    /\ pc' = [pc EXCEPT ![t] = "cnt_idx_chunk"]
    /\ UNCHANGED <<pool, poolsMade, poolsOpen, now, result, uuids, faults, call, data,
                   conns, frames, uq, got, outcome, writes, ensured, lastDone, calls, upsertsOnly>>

\* CREATE INDEX IF NOT EXISTS idx_{safe_namespace}_chunk_id
CreateNamespaceIndexChunk(t) ==
    /\ pc[t] = "cnt_idx_chunk"
    /\ tables' = [tables EXCEPT ![FrameTable(t)].idx = @ \cup {"chunk_id"}]
    /\ pc' = [pc EXCEPT ![t] = "cnt_idx_file"]
    /\ UNCHANGED <<pool, poolsMade, poolsOpen, now, result, uuids, faults, call, data,
                   conns, frames, uq, got, outcome, writes, ensured, lastDone, calls, upsertsOnly>>

\* CREATE INDEX IF NOT EXISTS idx_{safe_namespace}_file_id; then
\* _ensure_unique_index_on_chunk_id issues its first CREATE UNIQUE INDEX
CreateNamespaceIndexFile(t) ==
    /\ pc[t] = "cnt_idx_file"
    /\ tables' = [tables EXCEPT ![FrameTable(t)].idx = @ \cup {"file_id"}]
    /\ uq' = [uq EXCEPT ![t] = [NoUq EXCEPT !.table = FrameTable(t), !.after = "cnt_return"]]
    /\ pc' = [pc EXCEPT ![t] = "uq_first"]
    /\ UNCHANGED <<pool, poolsMade, poolsOpen, now, result, uuids, faults, call, data,
                   conns, frames, got, outcome, writes, ensured, lastDone, calls, upsertsOnly>>

\* CREATE UNIQUE INDEX IF NOT EXISTS ... (chunk_id) goes through: the index is
\* there already, or no two rows share a chunk_id
CanIndex(tb) == tb.exists /\ (tb.uniq \/ ~HasDuplicates(tb.rows))

\* _ensure_unique_index_on_chunk_id has returned: the code after it, up to the
\* next await
EnsureReturns(t) ==
    IF uq[t].after = "cnt_return"
    THEN \* create_namespace_table is over: its connection goes back, its caller
         \* goes on
         /\ conns' = [conns EXCEPT ![t] = @ - 1]
         /\ ensured' = ensured \cup {uq[t].table}
         /\ pc' = [pc EXCEPT ![t] = frames[t][1].ret]
         /\ frames' = [frames EXCEPT ![t] = <<>>]
         /\ UNCHANGED outcome
    ELSE IF uq[t].after = "ce_return"
    THEN \* create_embeddings_table made the table and is over
         /\ conns' = [conns EXCEPT ![t] = @ - 1]
         /\ ensured' = ensured \cup {uq[t].table}
         /\ pc' = [pc EXCEPT ![t] = "done"]
         /\ outcome' = [outcome EXCEPT ![t] = "ok"]
         /\ UNCHANGED frames
    ELSE \* create_embeddings_table found the table: ALTER COLUMN embedding follows
         /\ pc' = [pc EXCEPT ![t] = "ce_alter"]
         /\ UNCHANGED <<conns, ensured, outcome, frames>>

\* a first statement that is CREATE INDEX IF NOT EXISTS, without UNIQUE: it
\* succeeds whatever the rows are and makes nothing unique
EnsurePlainIndex(t) ==
    /\ pc[t] = "uq_first"
    /\ tables[uq[t].table].exists
    /\ uq' = [uq EXCEPT ![t].trail = Append(@, "create_ok")]
    /\ EnsureReturns(t)
    /\ UNCHANGED <<pool, poolsMade, poolsOpen, tables, now, result, uuids, faults, call, data,
                   got, writes, lastDone, calls, upsertsOnly>>

\* the first CREATE UNIQUE INDEX IF NOT EXISTS succeeds
EnsureFirstOk(t) ==
    /\ pc[t] = "uq_first"
    /\ CanIndex(tables[uq[t].table])
    /\ tables' = [tables EXCEPT ![uq[t].table].uniq = TRUE]
    /\ uq' = [uq EXCEPT ![t].trail = Append(@, "create_ok")]
    /\ EnsureReturns(t)
    /\ UNCHANGED <<pool, poolsMade, poolsOpen, now, result, uuids, faults, call, data,
                   got, writes, lastDone, calls, upsertsOnly>>

\* the statement fails: it cannot succeed on the table as it is, or the server
\* fails it for a reason of its own (connection lost, lock timeout, ...)
Fails(possible) ==
    /\ ~possible \/ faults < MaxFaults
    /\ faults' = IF possible THEN faults + 1 ELSE faults

\* the first attempt raises: except Exception -> _deduplicate_chunk_id is issued
EnsureFirstFails(t) ==
    /\ pc[t] = "uq_first"
    /\ Fails(CanIndex(tables[uq[t].table]))
    /\ uq' = [uq EXCEPT ![t].trail = Append(@, "create_failed")]
    /\ pc' = [pc EXCEPT ![t] = "uq_dedup"]
    /\ UNCHANGED <<pool, poolsMade, poolsOpen, tables, now, result, uuids, call,
                   data, conns, frames, got, outcome, writes, ensured, lastDone, calls,
                   upsertsOnly>>

\* the deduplicating DELETE runs; the retry is issued
EnsureDedup(t) ==
    /\ pc[t] = "uq_dedup"
    /\ tables[uq[t].table].exists
    /\ tables' = [tables EXCEPT ![uq[t].table].rows = _deduplicate_chunk_id(@)]
    /\ uq' = [uq EXCEPT ![t].trail = Append(@, "dedup_ok")]
    /\ pc' = [pc EXCEPT ![t] = "uq_retry"]
    /\ UNCHANGED <<pool, poolsMade, poolsOpen, now, result, uuids, faults, call, data,
                   conns, frames, got, outcome, writes, ensured, lastDone, calls,
                   upsertsOnly>>

\* the retried CREATE UNIQUE INDEX IF NOT EXISTS succeeds
EnsureRetryOk(t) ==
    /\ pc[t] = "uq_retry"
    /\ CanIndex(tables[uq[t].table])
    /\ tables' = [tables EXCEPT ![uq[t].table].uniq = TRUE]
    /\ uq' = [uq EXCEPT ![t].trail = Append(@, "create_ok")]
    /\ EnsureReturns(t)
    /\ UNCHANGED <<pool, poolsMade, poolsOpen, now, result, uuids, faults, call, data,
                   got, writes, lastDone, calls, upsertsOnly>>

\* the deduplicating DELETE raises: except Exception as e2 -> logger.error(...); raise
EnsureDedupFails(t) ==
    /\ pc[t] = "uq_dedup"
    /\ Fails(tables[uq[t].table].exists)
    /\ uq' = [uq EXCEPT ![t].trail = Append(@, "dedup_failed")]
    /\ Raised(t)
    /\ UNCHANGED <<pool, poolsMade, poolsOpen, tables, now, result, uuids, call,
                   data, got, writes, ensured, lastDone, calls, upsertsOnly>>

\* an inner except branch that logs and does not raise
EnsureRetrySwallowed(t) ==
    /\ pc[t] = "uq_retry"
    /\ Fails(CanIndex(tables[uq[t].table]))
    /\ uq' = [uq EXCEPT ![t].trail = Append(@, "create_failed")]
    /\ EnsureReturns(t)
    /\ UNCHANGED <<pool, poolsMade, poolsOpen, tables, now, result, uuids, call,
                   data, got, writes, lastDone, calls, upsertsOnly>>

\* the retry raises: except Exception as e2 -> logger.error(...); raise
EnsureRetryFails(t) ==
    /\ pc[t] = "uq_retry"
    /\ Fails(CanIndex(tables[uq[t].table]))
    /\ uq' = [uq EXCEPT ![t].trail = Append(@, "create_failed")]
    /\ Raised(t)
    /\ UNCHANGED <<pool, poolsMade, poolsOpen, tables, now, result, uuids, call,
                   data, got, writes, ensured, lastDone, calls, upsertsOnly>>

-----------------------------------------------------------------------------
(* create_embeddings_table, as lifespan calls it. *)

create_embeddings_table(t) ==
    /\ pc[t] = "idle"
    /\ calls < MaxCalls
    /\ calls' = calls + 1
    /\ call' = [call EXCEPT ![t] = [op |-> "create_embeddings_table"]]
    /\ get_pool(t, "ce_acquire")
    /\ UNCHANGED <<pool, poolsMade, poolsOpen, tables, now, result, uuids, faults, data,
                   conns, frames, uq, outcome, writes, ensured, lastDone, upsertsOnly>>

\* async with pool.acquire() as conn: CREATE EXTENSION (failure swallowed) and
\* CREATE SCHEMA IF NOT EXISTS change nothing here; SELECT EXISTS (...tables...) is issued
CreateEmbeddingsAcquire(t) ==
    /\ pc[t] = "ce_acquire"
    /\ FreeConns > 0
    /\ conns' = [conns EXCEPT ![t] = @ + 1]
    /\ pc' = [pc EXCEPT ![t] = "ce_exists"]
    /\ UNCHANGED <<pool, poolsMade, poolsOpen, tables, now, result, uuids, faults, call,
                   data, frames, uq, got, outcome, writes, ensured, lastDone, calls,
                   upsertsOnly>>

\* table_exists is read: if not table_exists -> CREATE TABLE is issued, else the
\* namespace column is looked up
CreateEmbeddingsExists(t) ==
    /\ pc[t] = "ce_exists"
    /\ pc' = [pc EXCEPT ![t] = IF tables[Embeddings].exists THEN "ce_has_ns" ELSE "ce_table"]
    /\ UNCHANGED <<pool, poolsMade, poolsOpen, tables, now, result, uuids, faults, call,
                   data, conns, frames, uq, got, outcome, writes, ensured, lastDone, calls,
                   upsertsOnly>>

\* CREATE TABLE {DB_SCHEMA}.embeddings (...)
CreateEmbeddingsTable(t) ==
    /\ pc[t] = "ce_table"
    /\ ~tables[Embeddings].exists
    /\ tables' = [tables EXCEPT ![Embeddings] = CreatedTable]
    /\ pc' = [pc EXCEPT ![t] = "ce_idx_ns"]
    /\ UNCHANGED <<pool, poolsMade, poolsOpen, now, result, uuids, faults, call, data,
                   conns, frames, uq, got, outcome, writes, ensured, lastDone, calls,
                   upsertsOnly>>

\* CREATE INDEX idx_embeddings_namespace ON embeddings(namespace)
CreateEmbeddingsIndexNamespace(t) ==
    /\ pc[t] = "ce_idx_ns"
    /\ "namespace" \notin tables[Embeddings].idx
    /\ tables' = [tables EXCEPT ![Embeddings].idx = @ \cup {"namespace"}]
    /\ pc' = [pc EXCEPT ![t] = "ce_idx_file"]
    /\ UNCHANGED <<pool, poolsMade, poolsOpen, now, result, uuids, faults, call, data,
                   conns, frames, uq, got, outcome, writes, ensured, lastDone, calls,
                   upsertsOnly>>

\* _ensure_unique_index_on_chunk_id(conn, embeddings, ...) is entered
EnterEnsure(t, after) ==
    /\ uq' = [uq EXCEPT ![t] = [NoUq EXCEPT !.table = Embeddings, !.after = after]]
    /\ pc' = [pc EXCEPT ![t] = "uq_first"]

\* CREATE INDEX idx_embeddings_file_id ON embeddings(file_id); the unique index follows
CreateEmbeddingsIndexFile(t) ==
    /\ pc[t] = "ce_idx_file"
    /\ "file_id" \notin tables[Embeddings].idx
    /\ tables' = [tables EXCEPT ![Embeddings].idx = @ \cup {"file_id"}]
    /\ EnterEnsure(t, "ce_return")
    /\ UNCHANGED <<pool, poolsMade, poolsOpen, now, result, uuids, faults, call, data,
                   conns, frames, got, outcome, writes, ensured, lastDone, calls,
                   upsertsOnly>>

\* a CREATE TABLE or CREATE INDEX written without IF NOT EXISTS, or an ADD COLUMN,
\* finds its object in place: the statement raises
CreateEmbeddingsExistsAlready(t) ==
    /\ \/ pc[t] = "ce_table" /\ tables[Embeddings].exists
       \/ pc[t] = "ce_idx_ns" /\ "namespace" \in tables[Embeddings].idx
       \/ pc[t] = "ce_idx_file" /\ "file_id" \in tables[Embeddings].idx
       \/ pc[t] = "ce_add_ns" /\ "namespace" \in tables[Embeddings].cols
       \/ pc[t] = "ce_add_file" /\ "file_id" \in tables[Embeddings].cols
    /\ Raised(t)
    /\ UNCHANGED <<pool, poolsMade, poolsOpen, tables, now, result, uuids, faults, call,
                   data, uq, got, writes, ensured, lastDone, calls, upsertsOnly>>

\* namespace_column_exists is read
CreateEmbeddingsHasNamespace(t) ==
    /\ pc[t] = "ce_has_ns"
    /\ pc' = [pc EXCEPT ![t] = IF "namespace" \in tables[Embeddings].cols
                               THEN "ce_has_file" ELSE "ce_add_ns"]
    /\ UNCHANGED <<pool, poolsMade, poolsOpen, tables, now, result, uuids, faults, call,
                   data, conns, frames, uq, got, outcome, writes, ensured, lastDone, calls,
                   upsertsOnly>>

\* ALTER TABLE embeddings ADD COLUMN namespace TEXT DEFAULT 'general'
CreateEmbeddingsAddNamespace(t) ==
    /\ pc[t] = "ce_add_ns"
    /\ "namespace" \notin tables[Embeddings].cols
    /\ tables' = [tables EXCEPT
                    ![Embeddings].cols = @ \cup {"namespace"},
                    ![Embeddings].rows = [i \in DOMAIN @ |-> [@[i] EXCEPT !.namespace = General]]]
    /\ pc' = [pc EXCEPT ![t] = "ce_idx_ns2"]
    /\ UNCHANGED <<pool, poolsMade, poolsOpen, now, result, uuids, faults, call, data,
                   conns, frames, uq, got, outcome, writes, ensured, lastDone, calls,
                   upsertsOnly>>

\* CREATE INDEX IF NOT EXISTS idx_embeddings_namespace; file_id is looked up next
CreateEmbeddingsIndexNamespaceIfNot(t) ==
    /\ pc[t] = "ce_idx_ns2"
    /\ tables' = [tables EXCEPT ![Embeddings].idx = @ \cup {"namespace"}]
    /\ pc' = [pc EXCEPT ![t] = "ce_has_file"]
    /\ UNCHANGED <<pool, poolsMade, poolsOpen, now, result, uuids, faults, call, data,
                   conns, frames, uq, got, outcome, writes, ensured, lastDone, calls,
                   upsertsOnly>>

\* file_id_column_exists is read: the column is added, or the unique index follows
CreateEmbeddingsHasFileId(t) ==
    /\ pc[t] = "ce_has_file"
    /\ IF "file_id" \in tables[Embeddings].cols
       THEN /\ uq' = [uq EXCEPT ![t] = [NoUq EXCEPT !.table = Embeddings, !.after = "ce_alter"]]
            /\ pc' = [pc EXCEPT ![t] = "uq_first"]
       ELSE /\ pc' = [pc EXCEPT ![t] = "ce_add_file"]
            /\ UNCHANGED uq
    /\ UNCHANGED <<pool, poolsMade, poolsOpen, tables, now, result, uuids, faults, call,
                   data, conns, frames, got, outcome, writes, ensured, lastDone, calls,
                   upsertsOnly>>

\* ALTER TABLE embeddings ADD COLUMN file_id TEXT
CreateEmbeddingsAddFileId(t) ==
    /\ pc[t] = "ce_add_file"
    /\ "file_id" \notin tables[Embeddings].cols
    /\ tables' = [tables EXCEPT ![Embeddings].cols = @ \cup {"file_id"}]
    /\ pc' = [pc EXCEPT ![t] = "ce_idx_file2"]
    /\ UNCHANGED <<pool, poolsMade, poolsOpen, now, result, uuids, faults, call, data,
                   conns, frames, uq, got, outcome, writes, ensured, lastDone, calls,
                   upsertsOnly>>

\* CREATE INDEX IF NOT EXISTS idx_embeddings_file_id; the unique index follows
CreateEmbeddingsIndexFileIfNot(t) ==
    /\ pc[t] = "ce_idx_file2"
    /\ tables' = [tables EXCEPT ![Embeddings].idx = @ \cup {"file_id"}]
    /\ EnterEnsure(t, "ce_alter")
    /\ UNCHANGED <<pool, poolsMade, poolsOpen, now, result, uuids, faults, call, data,
                   conns, frames, got, outcome, writes, ensured, lastDone, calls,
                   upsertsOnly>>

\* ALTER TABLE embeddings ALTER COLUMN embedding TYPE vector(768), any failure
\* swallowed; the connection goes back and create_embeddings_table returns
CreateEmbeddingsAlter(t) ==
    /\ pc[t] = "ce_alter"
    /\ conns' = [conns EXCEPT ![t] = @ - 1]
    /\ ensured' = ensured \cup {Embeddings}
    /\ pc' = [pc EXCEPT ![t] = "done"]
    /\ outcome' = [outcome EXCEPT ![t] = "ok"]
    /\ UNCHANGED <<pool, poolsMade, poolsOpen, tables, now, result, uuids, faults, call,
                   data, frames, uq, got, writes, lastDone, calls, upsertsOnly>>

-----------------------------------------------------------------------------
(* NamespacePgVector.delete_by_file_id, delete_by_source, delete_by_chunk_ids. *)

InList(x, list) == \E i \in DOMAIN list : list[i] = x

\* a WHERE clause on the main table that always names the store's namespace
MainWhereOwnNamespace(c, row) ==
    /\ row.namespace = c.namespace
    /\ CASE c.op = "delete_by_file_id" -> row.file_id = c.arg
         [] c.op = "delete_by_source" -> row.source = c.arg
         [] OTHER -> InList(row.chunk_id, c.arg)

\* the WHERE clause of the DELETE on the main table
MainWhere(c, row) ==
    CASE c.op = "delete_by_file_id" -> row.namespace = c.namespace /\ row.file_id = c.arg
      [] c.op = "delete_by_source" -> row.namespace = c.namespace /\ row.source = c.arg
      [] OTHER -> InList(row.chunk_id, c.arg)

\* the WHERE clause of the DELETE on the namespace table
NamespaceWhere(c, row) ==
    CASE c.op = "delete_by_file_id" -> row.file_id = c.arg
      [] c.op = "delete_by_source" -> row.source = c.arg
      [] OTHER -> InList(row.chunk_id, c.arg)

\* DELETE FROM {DB_SCHEMA}.embeddings WHERE ...: the rows that stay
DeleteFromMain(rows, c) ==
    LET Stays(row) == ~MainWhere(c, row) IN SelectSeq(rows, Stays)

\* DELETE FROM {DB_SCHEMA}.{self.safe_namespace} WHERE ...: the rows that stay
DeleteFromNamespace(rows, c) ==
    LET Stays(row) == ~NamespaceWhere(c, row) IN SelectSeq(rows, Stays)

StartDelete(t, op, namespace, arg) ==
    /\ pc[t] = "idle"
    /\ calls < MaxCalls
    /\ calls' = calls + 1
    /\ call' = [call EXCEPT ![t] = [op |-> op, namespace |-> namespace, arg |-> arg]]
    /\ get_pool(t, "d_acquire")
    /\ UNCHANGED <<pool, poolsMade, poolsOpen, tables, now, result, uuids, faults, data,
                   conns, frames, uq, outcome, writes, ensured, lastDone, upsertsOnly>>

delete_by_file_id(t, namespace, file_id) ==
    StartDelete(t, "delete_by_file_id", namespace, file_id)

delete_by_source(t, namespace, source) ==
    StartDelete(t, "delete_by_source", namespace, source)

delete_by_chunk_ids(t, namespace, chunk_ids) ==
    StartDelete(t, "delete_by_chunk_ids", namespace, chunk_ids)

\* async with pool.acquire() as conn: the DELETE on the main table is issued
DeleteAcquire(t) ==
    /\ pc[t] = "d_acquire"
    /\ FreeConns > 0
    /\ conns' = [conns EXCEPT ![t] = @ + 1]
    /\ pc' = [pc EXCEPT ![t] = "d_main"]
    /\ UNCHANGED <<pool, poolsMade, poolsOpen, tables, now, result, uuids, faults, call,
                   data, frames, uq, got, outcome, writes, ensured, lastDone, calls, upsertsOnly>>

\* the DELETE on the main table finds the table and the columns it names
CanDeleteMain(c, tb) ==
    /\ tb.exists
    /\ c.op # "delete_by_chunk_ids" => "namespace" \in tb.cols
    /\ c.op = "delete_by_file_id" => "file_id" \in tb.cols

\* DELETE FROM {DB_SCHEMA}.embeddings WHERE ...
DeleteMain(t) ==
    /\ pc[t] = "d_main"
    /\ CanDeleteMain(call[t], tables[Embeddings])
    /\ tables' = [tables EXCEPT ![Embeddings].rows = DeleteFromMain(@, call[t])]
    /\ pc' = [pc EXCEPT ![t] = "d_ns"]
    /\ UNCHANGED <<pool, poolsMade, poolsOpen, now, result, uuids, faults, call, data,
                   conns, frames, uq, got, outcome, writes, ensured, lastDone, calls, upsertsOnly>>

\* the main table or a column is missing: the statement raises
DeleteMainFails(t) ==
    /\ pc[t] = "d_main"
    /\ ~CanDeleteMain(call[t], tables[Embeddings])
    /\ Raised(t)
    /\ UNCHANGED <<pool, poolsMade, poolsOpen, tables, now, result, uuids, faults, call, data,
                   uq, got, writes, ensured, lastDone, calls, upsertsOnly>>

\* DELETE FROM {DB_SCHEMA}.{self.safe_namespace} WHERE ...
DeleteNamespace(t) ==
    /\ pc[t] = "d_ns"
    /\ tables[safe_namespace(t)].exists
    /\ tables' = [tables EXCEPT ![safe_namespace(t)].rows =
                                    DeleteFromNamespace(@, call[t])]
    /\ pc' = [pc EXCEPT ![t] = "done"]
    /\ outcome' = [outcome EXCEPT ![t] = "ok"]
    /\ conns' = [conns EXCEPT ![t] = @ - 1]
    /\ UNCHANGED <<pool, poolsMade, poolsOpen, now, result, uuids, faults, call, data,
                   frames, uq, got, writes, ensured, lastDone, calls, upsertsOnly>>

\* the namespace table was never created: the statement raises UndefinedTable
DeleteNamespaceFails(t) ==
    /\ pc[t] = "d_ns"
    /\ ~tables[safe_namespace(t)].exists
    /\ Raised(t)
    /\ UNCHANGED <<pool, poolsMade, poolsOpen, tables, now, result, uuids, faults, call,
                   data, uq, got, writes, ensured, lastDone, calls, upsertsOnly>>

-----------------------------------------------------------------------------
(* A statement of an upsert that fails after an earlier one went through. *)

\* the failure of the namespace-table write taken for a success
UpsertNamespaceFailureMasked(t) ==
    /\ pc[t] = "u_ns"
    /\ Fails(CanUpsert(tables[safe_namespace(t)]))
    /\ pc' = [pc EXCEPT ![t] = "done"]
    /\ outcome' = [outcome EXCEPT ![t] = "ok"]
    /\ conns' = [conns EXCEPT ![t] = @ - 1]
    /\ UNCHANGED <<pool, poolsMade, poolsOpen, tables, now, result, uuids, call, data,
                   frames, uq, got, writes, ensured, lastDone, calls, upsertsOnly>>

\* the executemany on the namespace table raises: nothing catches it in
\* _upsert_to_postgres or upsert_documents, the connection goes back to the pool
UpsertNamespaceFails(t) ==
    /\ pc[t] = "u_ns"
    /\ Fails(CanUpsert(tables[safe_namespace(t)]))
    /\ Raised(t)
    /\ UNCHANGED <<pool, poolsMade, poolsOpen, tables, now, result, uuids, call, data,
                   uq, got, writes, ensured, lastDone, calls, upsertsOnly>>

-----------------------------------------------------------------------------
(* Reads of NamespacePgVector: SELECT ... FROM embeddings WHERE namespace = $1 ... *)

GlobalRows == tables[Embeddings].rows

\* the rows get_by_file_id selects (their ORDER BY chunk_index left aside)
RowsByFileId(namespace, file_id) ==
    LET Hit(row) == row.namespace = namespace /\ row.file_id = file_id
    IN  SelectSeq(GlobalRows, Hit)

RowsBySource(namespace, source) ==
    LET Hit(row) == row.namespace = namespace /\ row.source = source
    IN  SelectSeq(GlobalRows, Hit)

\* the rows similarity_search ranks when no filter is given
RowsOfNamespace(namespace) ==
    LET Hit(row) == row.namespace = namespace IN SelectSeq(GlobalRows, Hit)

count_by_file_id(namespace, file_id) ==
    LET count == Len(RowsByFileId(namespace, file_id))
    IN  IF count = 0 /\ (Contains(<<"/">>, file_id) \/ Contains(<<"\\">>, file_id))
        THEN Len(RowsBySource(namespace, file_id))
        ELSE count

\* a str argument that Python's `if x:` takes: neither None nor ''
Truthy(x) == x # Null /\ x # Empty

\* a where_clause that looks at filter_source first
WhereClauseSourceFirst(c, row) ==
    /\ row.namespace = c.namespace
    /\ IF Truthy(c.filter_source) THEN row.source = c.filter_source
       ELSE IF Truthy(c.filter_file_id) THEN row.file_id = c.filter_file_id
       ELSE TRUE

\* similarity_search's where_clause, as it selects a row
WhereClause(c, row) ==
    /\ row.namespace = c.namespace
    /\ IF Truthy(c.filter_file_id) THEN row.file_id = c.filter_file_id
       ELSE IF Truthy(c.filter_source) THEN row.source = c.filter_source
       ELSE TRUE

Eligible(c) == LET Hit(row) == WhereClause(c, row) IN SelectSeq(GlobalRows, Hit)

\* similarities and distances are fixed-point numbers, in units of 1/Scale
Scale == 100

Dot(a, b) == SumOver([i \in DOMAIN a |-> a[i] * b[i]], DOMAIN a)

\* the cosine of the angle between two vectors, neither of them zero
CosineSimilarity(a, b) ==
    LET d == Dot(a, b)
        n == Dot(a, a) * Dot(b, b)
        r == CHOOSE c \in 0..Scale :
                 /\ c * c * n <= Scale * Scale * d * d
                 /\ Scale * Scale * d * d < (c + 1) * (c + 1) * n
    IN  IF d >= 0 THEN r ELSE 0 - r

\* embedding <=> $1
CosineDistance(a, b) == Scale - CosineSimilarity(a, b)

MinOf(a, b) == IF a <= b THEN a ELSE b

\* the first k of the rows in whatever order the server returns them
FirstAnyOrder(rows, q, k) ==
    LET n == Len(rows)
        orders == {p \in [1..n -> 1..n] : \A i, j \in 1..n : i < j => p[i] # p[j]}
    IN  {[i \in 1..MinOf(k, n) |-> rows[p[i]]] : p \in orders}

\* ORDER BY embedding <=> $1 LIMIT $2: the results the server may return, rows
\* at one distance coming in any order
OrderByDistanceLimit(rows, q, k) ==
    LET n == Len(rows)
        dist == [i \in 1..n |-> CosineDistance(rows[i].embedding, q)]
        orders == {p \in [1..n -> 1..n] :
                       \A i, j \in 1..n : i < j => p[i] # p[j] /\ dist[p[i]] <= dist[p[j]]}
    IN  {[i \in 1..MinOf(k, n) |-> rows[p[i]]] : p \in orders}

\* the Document built from a row of the result
DocumentOf(row, q, namespace) ==
    [page_content |-> row.text, chunk_id |-> row.chunk_id, file_id |-> row.file_id,
     source |-> row.source, chunk_index |-> row.chunk_index,
     similarity |-> Scale - CosineDistance(row.embedding, q), namespace |-> namespace]

\* a read operation starts; reads are not counted among the calls
StartRead(t, c) ==
    /\ pc[t] = "idle"
    /\ call' = [call EXCEPT ![t] = c]
    /\ UNCHANGED <<pool, poolsMade, poolsOpen, tables, now, result, uuids, faults, data,
                   conns, frames, uq, outcome, writes, ensured, lastDone, calls, upsertsOnly>>

\* query_embedding = await asyncio.to_thread(self.embeddings.embed_query, query)
similarity_search(t, namespace, query, k, filter_file_id, filter_source) ==
    /\ StartRead(t, [op |-> "similarity_search", namespace |-> namespace, query |-> query,
                     k |-> k, filter_file_id |-> filter_file_id,
                     filter_source |-> filter_source])
    /\ pc' = [pc EXCEPT ![t] = "s_embed"]
    /\ UNCHANGED got

\* the embedding is back: pool = await PSQLDatabase.get_pool()
SearchEmbedded(t) ==
    /\ pc[t] = "s_embed"
    /\ get_pool(t, "r_acquire")
    /\ UNCHANGED <<pool, poolsMade, poolsOpen, tables, now, result, uuids, faults, call, data,
                   conns, frames, uq, outcome, writes, ensured, lastDone, calls, upsertsOnly>>

\* async with pool.acquire() as conn: the first query of the read is issued
ReadAcquire(t) ==
    /\ pc[t] = "r_acquire"
    /\ FreeConns > 0
    /\ conns' = [conns EXCEPT ![t] = @ + 1]
    /\ pc' = [pc EXCEPT ![t] = IF call[t].op = "similarity_search" THEN "s_fetch"
                               ELSE "c_file_id"]
    /\ UNCHANGED <<pool, poolsMade, poolsOpen, tables, now, result, uuids, faults, call,
                   data, frames, uq, got, outcome, writes, ensured, lastDone, calls, upsertsOnly>>

\* results = await conn.fetch(...); return documents
SearchFetch(t) ==
    /\ pc[t] = "s_fetch"
    /\ tables[Embeddings].exists
    /\ {"namespace", "file_id"} \subseteq tables[Embeddings].cols
    /\ LET q == embed_query(call[t].query) IN
       \E rows \in OrderByDistanceLimit(Eligible(call[t]), q, call[t].k) :
           result' = [result EXCEPT ![t].documents =
                        [i \in DOMAIN rows |-> DocumentOf(rows[i], q, call[t].namespace)]]
    /\ pc' = [pc EXCEPT ![t] = "done"]
    /\ outcome' = [outcome EXCEPT ![t] = "ok"]
    /\ conns' = [conns EXCEPT ![t] = @ - 1]
    /\ UNCHANGED <<pool, poolsMade, poolsOpen, tables, now, uuids, faults, call, data,
                   frames, uq, got, writes, ensured, lastDone, calls, upsertsOnly>>

\* a test that takes every file_id for a path
LooksLikePathAlways(file_id) == TRUE

\* '/' in file_id or '\\' in file_id
LooksLikePath(file_id) == Contains(<<"/">>, file_id) \/ Contains(<<"\\">>, file_id)

\* NamespacePgVector.count_by_file_id: pool = await PSQLDatabase.get_pool()
CountByFileId(t, namespace, file_id) ==
    /\ StartRead(t, [op |-> "count_by_file_id", namespace |-> namespace, arg |-> file_id])
    /\ get_pool(t, "r_acquire")

\* count = await conn.fetchval(... WHERE namespace = $1 AND file_id = $2)
CountFileId(t) ==
    /\ pc[t] = "c_file_id"
    /\ tables[Embeddings].exists
    /\ {"namespace", "file_id"} \subseteq tables[Embeddings].cols
    /\ LET count == Len(RowsByFileId(call[t].namespace, call[t].arg)) IN
       /\ result' = [result EXCEPT ![t].count = count]
       /\ IF count = 0 /\ LooksLikePath(call[t].arg)
          THEN /\ pc' = [pc EXCEPT ![t] = "c_source"]
               /\ UNCHANGED <<outcome, conns>>
          ELSE /\ pc' = [pc EXCEPT ![t] = "done"]          \* return count or 0
               /\ outcome' = [outcome EXCEPT ![t] = "ok"]
               /\ conns' = [conns EXCEPT ![t] = @ - 1]
    /\ UNCHANGED <<pool, poolsMade, poolsOpen, tables, now, uuids, faults, call, data,
                   frames, uq, got, writes, ensured, lastDone, calls, upsertsOnly>>

\* count = await conn.fetchval(... WHERE namespace = $1 AND source = $2)
CountSource(t) ==
    /\ pc[t] = "c_source"
    /\ result' = [result EXCEPT ![t].count = Len(RowsBySource(call[t].namespace, call[t].arg))]
    /\ pc' = [pc EXCEPT ![t] = "done"]
    /\ outcome' = [outcome EXCEPT ![t] = "ok"]
    /\ conns' = [conns EXCEPT ![t] = @ - 1]
    /\ UNCHANGED <<pool, poolsMade, poolsOpen, tables, now, uuids, faults, call, data,
                   frames, uq, got, writes, ensured, lastDone, calls, upsertsOnly>>

-----------------------------------------------------------------------------
(* The service after startup: lifespan has built the pool and run          *)
(* create_embeddings_table, and requests are served one after another.     *)

ReadyEmbeddings ==
    [CreatedTable EXCEPT !.idx = {"namespace", "file_id"}, !.uniq = TRUE]

InitTasks ==
    /\ pc = [t \in Tasks |-> "idle"]
    /\ call = [t \in Tasks |-> NoCall]
    /\ data = [t \in Tasks |-> <<>>]
    /\ conns = [t \in Tasks |-> 0]
    /\ frames = [t \in Tasks |-> <<>>]
    /\ uq = [t \in Tasks |-> NoUq]
    /\ got = [t \in Tasks |-> NoGot]
    /\ outcome = [t \in Tasks |-> "none"]
    /\ writes = [t \in Tasks |-> <<>>]
    /\ result = [t \in Tasks |-> NoResult]
    /\ lastDone = NoDone
    /\ calls = 0
    /\ upsertsOnly = TRUE
    /\ uuids = 0
    /\ faults = 0
    /\ now = 0

InitServing ==
    /\ InitTasks
    /\ pool = 1
    /\ poolsMade = 1
    /\ poolsOpen = {1}
    /\ tables = [n \in TableNames |-> IF n = Embeddings THEN ReadyEmbeddings ELSE NoTable]
    /\ ensured = {Embeddings}

DeleteNamespaces == {General, NsAlice}
DeleteFileIds == {F1}
DeleteSources == {S2}
DeleteChunkIds == {<<C1id, C2id>>}

StoreStep(t) ==
    \/ \E ns \in Namespaces, r \in Requests, copy \in BOOLEAN :
         upsert_documents(t, ns, r.documents, r.chunk_indices, copy)
    \/ UpsertPrepare(t)
    \/ CreateNamespaceAcquire(t)
    \/ CreateNamespaceTable(t)
    \/ CreateNamespaceIndexChunk(t)
    \/ CreateNamespaceIndexFile(t)
    \/ EnsureFirstOk(t)
    \/ UpsertAcquire(t)
    \/ UpsertMain(t)
    \/ UpsertNamespace(t)
    \/ UpsertGeneralMain(t)
    \/ UpsertGeneralNamespace(t)
    \/ \E ns \in DeleteNamespaces, f \in DeleteFileIds : delete_by_file_id(t, ns, f)
    \/ \E ns \in DeleteNamespaces, s \in DeleteSources : delete_by_source(t, ns, s)
    \/ \E ns \in DeleteNamespaces, ids \in DeleteChunkIds : delete_by_chunk_ids(t, ns, ids)
    \/ DeleteAcquire(t)
    \/ DeleteMain(t)
    \/ DeleteNamespace(t)
    \/ DeleteNamespaceFails(t)
    \/ Return(t)

Next == StoreStep("t1")

Spec == InitServing /\ [][Next]_vars

\* the store serving reads between its upserts
SearchNamespaces == {General, NsAlice}
Queries == {"ta", "tc"}
MaxK == 2
FilterFileIds == {Null, Empty, F1}
FilterSources == {Null, S1, S2}
CountFileIds == {F1, S1, S2}
ReadRequests == {<<DocA>>, <<DocB>>, <<DocC, DocD>>}

ReadStep(t) ==
    \/ \E ns \in SearchNamespaces, r \in ReadRequests, copy \in BOOLEAN :
         upsert_documents(t, ns, r, NoIndices, copy)
    \/ UpsertPrepare(t)
    \/ CreateNamespaceAcquire(t)
    \/ CreateNamespaceTable(t)
    \/ CreateNamespaceIndexChunk(t)
    \/ CreateNamespaceIndexFile(t)
    \/ EnsureFirstOk(t)
    \/ UpsertAcquire(t)
    \/ UpsertMain(t)
    \/ UpsertNamespace(t)
    \/ UpsertGeneralMain(t)
    \/ UpsertGeneralNamespace(t)
    \/ \E ns \in SearchNamespaces, q \in Queries, k \in 1..MaxK,
          f \in FilterFileIds, s \in FilterSources :
         similarity_search(t, ns, q, k, f, s)
    \/ SearchEmbedded(t)
    \/ ReadAcquire(t)
    \/ SearchFetch(t)
    \/ \E ns \in SearchNamespaces, f \in CountFileIds : CountByFileId(t, ns, f)
    \/ CountFileId(t)
    \/ CountSource(t)
    \/ Return(t)

NextRead == ReadStep("t1")

SpecRead == InitServing /\ [][NextRead]_vars

\* the store after 'general' has upserted DocA and 'alice' has upserted DocC and
\* DocD:
\* the tables these two upserts leave, the second having just returned
StoredValues(namespace, documents) ==
    ValuesOf(data_with_embeddings(namespace, documents, NoIndices, 0), namespace)

StoredTable(namespace, documents) ==
    [CreatedTable EXCEPT !.idx = {"chunk_id", "file_id"}, !.uniq = TRUE,
                         !.rows = executemany(<<>>, StoredValues(namespace, documents), 0)]

StoredTables ==
    [n \in TableNames |->
        IF n = Embeddings
        THEN [ReadyEmbeddings EXCEPT !.rows =
                 executemany(executemany(<<>>, StoredValues(General, <<DocA>>), 0),
                             StoredValues(NsAlice, <<DocC, DocD>>), 0)]
        ELSE IF n = _sanitize_namespace(General) THEN StoredTable(General, <<DocA>>)
        ELSE IF n = _sanitize_namespace(NsAlice) THEN StoredTable(NsAlice, <<DocC, DocD>>)
        ELSE NoTable]

StoredLastDone ==
    [valid |-> TRUE,
     call |-> [op |-> "upsert_documents", namespace |-> NsAlice, documents |-> <<DocC, DocD>>,
               chunk_indices |-> NoIndices, copy_to_general |-> FALSE, replay |-> FALSE],
     tables |-> StoredTables]

InitStored ==
    /\ pc = [t \in Tasks |-> "idle"]
    /\ call = [t \in Tasks |-> NoCall]
    /\ data = [t \in Tasks |-> <<>>]
    /\ conns = [t \in Tasks |-> 0]
    /\ frames = [t \in Tasks |-> <<>>]
    /\ uq = [t \in Tasks |-> NoUq]
    /\ got = [t \in Tasks |-> NoGot]
    /\ outcome = [t \in Tasks |-> "none"]
    /\ writes = [t \in Tasks |-> <<>>]
    /\ result = [t \in Tasks |-> NoResult]
    /\ lastDone = StoredLastDone
    /\ calls = 0                    \* the calls are counted from here on
    /\ upsertsOnly = TRUE
    /\ uuids = 1
    /\ faults = 0
    /\ now = 0
    /\ pool = 1
    /\ poolsMade = 1
    /\ poolsOpen = {1}
    /\ tables = StoredTables
    /\ ensured = {Embeddings, _sanitize_namespace(General), _sanitize_namespace(NsAlice)}

StoredFileIds == {F1}
StoredSources == {S1}

DeleteStep(t) ==
    \/ \E ns \in DeleteNamespaces, f \in StoredFileIds : delete_by_file_id(t, ns, f)
    \/ \E ns \in DeleteNamespaces, s \in StoredSources : delete_by_source(t, ns, s)
    \/ \E ns \in DeleteNamespaces, ids \in DeleteChunkIds : delete_by_chunk_ids(t, ns, ids)
    \/ DeleteAcquire(t)
    \/ DeleteMain(t)
    \/ DeleteNamespace(t)
    \/ Return(t)

NextDelete == DeleteStep("t1")

SpecDelete == InitStored /\ [][NextDelete]_vars

\* the store on a server that may fail the second statement of an upsert
NextFault == StoreStep("t1") \/ UpsertNamespaceFails("t1")

SpecFault == InitServing /\ [][NextFault]_vars

\* two requests served concurrently: each task upserts one chunk under the
\* chunk_id c1 into the same namespace, with or without the copy to 'general'
ConcurrentRequests == {<<DocA>>, <<DocB>>}

ConcurrentStep(t) ==
    \/ \E r \in ConcurrentRequests, copy \in BOOLEAN :
         upsert_documents(t, NsAlice, r, NoIndices, copy)
    \/ UpsertPrepare(t)
    \/ CreateNamespaceAcquire(t)
    \/ CreateNamespaceTable(t)
    \/ CreateNamespaceIndexChunk(t)
    \/ CreateNamespaceIndexFile(t)
    \/ EnsureFirstOk(t)
    \/ UpsertAcquire(t)
    \/ UpsertMain(t)
    \/ UpsertNamespace(t)
    \/ UpsertGeneralMain(t)
    \/ UpsertGeneralNamespace(t)
    \/ Return(t)

NextConcurrent == \E t \in Tasks : ConcurrentStep(t)

SpecConcurrent == InitServing /\ [][NextConcurrent]_vars

\* the store while the clock of the database advances
Tick ==
    /\ now < MaxTime
    /\ now' = now + 1
    /\ UNCHANGED <<pool, poolsMade, poolsOpen, tables, uuids, faults, pc, call, data,
                   conns, frames, uq, got, outcome, writes, result, ensured, lastDone,
                   calls, upsertsOnly>>

NextClock == StoreStep("t1") \/ Tick

SpecClock == InitServing /\ [][NextClock]_vars

\* a store is built for a namespace and its table is created: the two places
\* that compute the table identifier, over all short namespace strings
MaxLen == 3
NamespaceChars == {"A", "b", "Z", "1", "-", " ", ".", "@", "_"}

RECURSIVE StringsUpTo(_)
StringsUpTo(n) ==
    IF n = 0 THEN {<<>>}
    ELSE LET shorter == StringsUpTo(n - 1)
         IN  shorter \cup {Append(s, c) : s \in shorter, c \in NamespaceChars}

InitSanitize ==
    /\ \E s \in StringsUpTo(MaxLen) :
         call = [t \in Tasks |-> IF t = "t1" THEN [op |-> "__init__", namespace |-> s]
                                 ELSE NoCall]
    /\ pc = [t \in Tasks |-> IF t = "t1" THEN "init" ELSE "idle"]
    /\ data = [t \in Tasks |-> <<>>]
    /\ conns = [t \in Tasks |-> 0]
    /\ frames = [t \in Tasks |-> <<>>]
    /\ uq = [t \in Tasks |-> NoUq]
    /\ got = [t \in Tasks |-> NoGot]
    /\ outcome = [t \in Tasks |-> "none"]
    /\ writes = [t \in Tasks |-> <<>>]
    /\ result = [t \in Tasks |-> NoResult]
    /\ lastDone = NoDone
    /\ calls = 0
    /\ upsertsOnly = TRUE
    /\ uuids = 0
    /\ faults = 0
    /\ now = 0
    /\ pool = 1
    /\ poolsMade = 1
    /\ poolsOpen = {1}
    /\ tables = [n \in TableNames |-> IF n = Embeddings THEN ReadyEmbeddings ELSE NoTable]
    /\ ensured = {Embeddings}

\* NamespacePgVector.__init__: self.safe_namespace = _sanitize_namespace(namespace)
StoreInit(t) ==
    /\ pc[t] = "init"
    /\ data' = [data EXCEPT ![t] = _sanitize_namespace(call[t].namespace)]
    /\ frames' = [frames EXCEPT ![t] = <<[ret |-> "done", namespace |-> call[t].namespace]>>]
    /\ pc' = [pc EXCEPT ![t] = "sanitize"]
    /\ UNCHANGED <<pool, poolsMade, poolsOpen, tables, now, result, uuids, faults, call,
                   conns, uq, got, outcome, writes, ensured, lastDone, calls, upsertsOnly>>

\* create_namespace_table(self.namespace) computes its own safe_namespace
CreateNamespaceSanitize(t) ==
    /\ pc[t] = "sanitize"
    /\ writes' = [writes EXCEPT ![t] = FrameTable(t)]
    /\ pc' = [pc EXCEPT ![t] = "done"]
    /\ outcome' = [outcome EXCEPT ![t] = "ok"]
    /\ UNCHANGED <<pool, poolsMade, poolsOpen, tables, now, result, uuids, faults, call,
                   data, conns, frames, uq, got, ensured, lastDone, calls, upsertsOnly>>

NextSanitize == StoreInit("t1") \/ CreateNamespaceSanitize("t1")

SpecSanitize == InitSanitize /\ [][NextSanitize]_vars

-----------------------------------------------------------------------------
(* Startup and service over a database an earlier version left behind: the  *)
(* embeddings table or a namespace table may be there without its unique    *)
(* index, holding rows that share a chunk_id; two tasks run concurrently.   *)

LegacyChunkIds == {C1id, C2id, Null}

\* the k-th row of a table that predates the unique index
LegacyRow(k, chunk_id, created_at, namespace) ==
    [chunk_id |-> chunk_id, file_id |-> Null, source |-> S1, chunk_index |-> k,
     text |-> "legacy", embedding |-> <<1, 1>>, namespace |-> namespace,
     created_at |-> created_at]

LegacyRows(namespace) ==
    UNION {{[k \in 1..n |-> LegacyRow(k, ids[k], ts[k], namespace)] :
                ids \in [1..n -> LegacyChunkIds], ts \in [1..n -> 0..MaxTime]} :
           n \in 0..MaxLegacy}

LegacyColumns == {{}, {"namespace", "file_id"}}

InitLegacy ==
    /\ InitTasks
    /\ pool = 1
    /\ poolsMade = 1
    /\ poolsOpen = {1}
    /\ \/ \* a new database: lifespan has yet to call create_embeddings_table
          /\ tables = [n \in TableNames |-> NoTable]
          /\ ensured = {}
       \/ \* an old embeddings table, create_embeddings_table yet to be called
          /\ \E cols \in LegacyColumns :
               \E rows \in LegacyRows(IF "namespace" \in cols THEN General ELSE Null) :
                 tables = [n \in TableNames |->
                             IF n = Embeddings
                             THEN [exists |-> TRUE, cols |-> cols, idx |-> {},
                                   uniq |-> FALSE, rows |-> rows]
                             ELSE NoTable]
          /\ ensured = {}
       \/ \* startup is over; an old namespace table
          /\ \E rows \in LegacyRows(NsAlice) :
                 tables = [n \in TableNames |->
                             IF n = Embeddings THEN ReadyEmbeddings
                             ELSE IF n = NsAlice
                             THEN [CreatedTable EXCEPT !.rows = rows]
                             ELSE NoTable]
          /\ ensured = {Embeddings}

\* the steps a task can take whether or not another task runs beside it
RepairStepAlone(t) ==
    \/ create_embeddings_table(t)
    \/ CreateEmbeddingsAcquire(t)
    \/ CreateEmbeddingsExists(t)
    \/ CreateEmbeddingsTable(t)
    \/ CreateEmbeddingsIndexNamespace(t)
    \/ CreateEmbeddingsIndexFile(t)
    \/ CreateEmbeddingsHasNamespace(t)
    \/ CreateEmbeddingsAddNamespace(t)
    \/ CreateEmbeddingsIndexNamespaceIfNot(t)
    \/ CreateEmbeddingsHasFileId(t)
    \/ CreateEmbeddingsAddFileId(t)
    \/ CreateEmbeddingsIndexFileIfNot(t)
    \/ CreateEmbeddingsAlter(t)
    \/ upsert_documents(t, NsAlice, <<DocA>>, NoIndices, FALSE)
    \/ UpsertPrepare(t)
    \/ CreateNamespaceAcquire(t)
    \/ CreateNamespaceTable(t)
    \/ CreateNamespaceIndexChunk(t)
    \/ CreateNamespaceIndexFile(t)
    \/ EnsureFirstOk(t)
    \/ EnsureFirstFails(t)
    \/ EnsureDedup(t)
    \/ EnsureRetryOk(t)
    \/ EnsureRetryFails(t)
    \/ EnsureDedupFails(t)
    \/ UpsertAcquire(t)
    \/ UpsertMain(t)
    \/ UpsertMainFails(t)
    \/ UpsertNamespace(t)
    \/ delete_by_chunk_ids(t, NsAlice, <<C1id>>)
    \/ DeleteAcquire(t)
    \/ DeleteMain(t)
    \/ DeleteMainFails(t)
    \/ DeleteNamespace(t)
    \/ DeleteNamespaceFails(t)
    \/ Return(t)

\* ... and the one that takes a second task to have got in between
RepairStep(t) ==
    \/ RepairStepAlone(t)
    \/ CreateEmbeddingsExistsAlready(t)

NextRepair == \E t \in Tasks : RepairStep(t)

SpecRepair == InitLegacy /\ [][NextRepair]_vars

\* startup and service with one call after the other
NextRepairSeq == RepairStepAlone("t1")

SpecRepairSeq == InitLegacy /\ [][NextRepairSeq]_vars

-----------------------------------------------------------------------------
(* PSQLDatabase.get_pool and close_pool called for themselves, as lifespan  *)
(* calls get_pool, in a process that has no pool yet.                       *)

\* await PSQLDatabase.get_pool()
GetPool(t) ==
    /\ pc[t] = "idle"
    /\ calls < MaxPoolCalls
    /\ calls' = calls + 1
    /\ call' = [call EXCEPT ![t] = [op |-> "get_pool"]]
    /\ get_pool(t, "done")
    /\ outcome' = [outcome EXCEPT ![t] = IF pool # 0 THEN "ok" ELSE @]
    /\ UNCHANGED <<pool, poolsMade, poolsOpen, tables, now, result, uuids, faults, data, conns,
                   frames, uq, writes, ensured, lastDone, upsertsOnly>>

\* asyncpg.create_pool raises: cls.pool stays None, the caller gets the exception
GetPoolFails(t) ==
    /\ pc[t] = "gp_create"
    /\ Fails(TRUE)
    /\ Raised(t)
    /\ UNCHANGED <<pool, poolsMade, poolsOpen, tables, now, result, uuids, call, data, uq, got,
                   writes, ensured, lastDone, calls, upsertsOnly>>

\* close_pool: if cls.pool is not None: await cls.pool.close() ...
close_pool(t) ==
    /\ pc[t] = "idle"
    /\ calls < MaxPoolCalls
    /\ calls' = calls + 1
    /\ call' = [call EXCEPT ![t] = [op |-> "close_pool"]]
    /\ IF pool # 0
       THEN /\ got' = [got EXCEPT ![t] = [pool |-> pool, then |-> "none"]]
            /\ pc' = [pc EXCEPT ![t] = "cp_close"]
            /\ UNCHANGED outcome
       ELSE /\ pc' = [pc EXCEPT ![t] = "done"]
            /\ outcome' = [outcome EXCEPT ![t] = "ok"]
            /\ UNCHANGED got
    /\ UNCHANGED <<pool, poolsMade, poolsOpen, tables, now, result, uuids, faults, data, conns,
                   frames, uq, writes, ensured, lastDone, upsertsOnly>>

\* ... the pool it awaited is closed: cls.pool = None
ClosePoolClosed(t) ==
    /\ pc[t] = "cp_close"
    /\ poolsOpen' = poolsOpen \ {got[t].pool}
    /\ pool' = 0
    /\ pc' = [pc EXCEPT ![t] = "done"]
    /\ outcome' = [outcome EXCEPT ![t] = "ok"]
    /\ UNCHANGED <<poolsMade, tables, now, result, uuids, faults, call, data, conns, frames, uq,
                   got, writes, ensured, lastDone, calls, upsertsOnly>>

InitFresh ==
    /\ InitTasks
    /\ pool = 0
    /\ poolsMade = 0
    /\ poolsOpen = {}
    /\ tables = [n \in TableNames |-> NoTable]
    /\ ensured = {}

PoolStep(t) ==
    \/ GetPool(t)
    \/ GetPoolCreated(t)
    \/ GetPoolFails(t)
    \/ close_pool(t)
    \/ ClosePoolClosed(t)
    \/ Return(t)

\* several tasks
NextPool == \E t \in Tasks : PoolStep(t)

SpecPool == InitFresh /\ [][NextPool]_vars

\* one caller, one call after the other
NextPoolSeq == PoolStep("t1")

SpecPoolSeq == InitFresh /\ [][NextPoolSeq]_vars

-----------------------------------------------------------------------------
(* Properties. *)

SeqToSet(q) == {q[i] : i \in DOMAIN q}

NamespaceTables == TableNames \ {Embeddings}

Quiet == \A t \in Tasks : pc[t] = "idle"

UpsertDone(t) ==
    pc[t] = "done" /\ outcome[t] = "ok" /\ call[t].op = "upsert_documents"

\* the six fields an upsert writes
SameFields(a, b) ==
    /\ a.chunk_id = b.chunk_id
    /\ a.file_id = b.file_id
    /\ a.source = b.source
    /\ a.chunk_index = b.chunk_index
    /\ a.text = b.text
    /\ a.embedding = b.embedding
    /\ a.namespace = b.namespace

\* the content of a prepared item, as a row holds it
HoldsItem(row, item) ==
    /\ row.chunk_id = item.chunk_id
    /\ row.file_id = item.file_id
    /\ row.source = item.source
    /\ row.chunk_index = item.chunk_index
    /\ row.text = item.text
    /\ row.embedding = item.embedding

\* the last item of the batch that carries this chunk_id
LastWith(items, chunk_id) ==
    items[CHOOSE i \in DOMAIN items :
            /\ items[i].chunk_id = chunk_id
            /\ \A j \in DOMAIN items : items[j].chunk_id = chunk_id => j <= i]

\* the positions of the rows holding chunk_id
RowsWith(rows, chunk_id) == {i \in DOMAIN rows : rows[i].chunk_id = chunk_id}

\* C1 (as claimed): after successfully completed upserts only, every chunk_id of
\* a namespace table is in the embeddings table with the same file_id, source,
\* chunk_index, text, embedding and namespace.
C1_MirroredAfterUpserts ==
    (Quiet /\ upsertsOnly) =>
        \A n \in NamespaceTables : \A r \in SeqToSet(tables[n].rows) :
            \E g \in SeqToSet(GlobalRows) : SameFields(g, r)

\* every document of the batch brings its own non-empty chunk_id
AllGiven(documents) == Generated(documents) = 0

OneRowEach(t, table) ==
    \A k \in DOMAIN data[t] :
        LET hits == RowsWith(tables[table].rows, data[t][k].chunk_id)
        IN  /\ Cardinality(hits) = 1
            /\ \A i \in hits :
                 HoldsItem(tables[table].rows[i], LastWith(data[t], data[t][k].chunk_id))

\* C2 (as claimed): an upsert that repeats the upsert before it, with the same
\* batch, namespace and copy_to_general, leaves the tables as the first run left
\* them, one row per chunk_id in the embeddings and the namespace table, holding
\* the batch's values.
C2_IdempotentAnyBatch ==
    \A t \in Tasks :
        (UpsertDone(t) /\ call[t].replay) =>
            /\ tables = lastDone.tables
            /\ OneRowEach(t, Embeddings)
            /\ OneRowEach(t, safe_namespace(t))

\* C2 (amended): the same, for batches in which every chunk supplies its chunk_id.
C2_IdempotentGivenIds ==
    \A t \in Tasks :
        (UpsertDone(t) /\ call[t].replay /\ AllGiven(call[t].documents)) =>
            /\ tables = lastDone.tables
            /\ OneRowEach(t, Embeddings)
            /\ OneRowEach(t, safe_namespace(t))

C2_Witness ==
    \E t \in Tasks :
        /\ UpsertDone(t) /\ call[t].replay /\ AllGiven(call[t].documents)
        /\ Len(call[t].documents) = 2
        /\ call[t].copy_to_general

\* the step is an executemany of task t
Wrote(t) == Len(writes'[t]) = Len(writes[t]) + 1

\* C4: when an executemany writes a chunk_id the table already holds, the rows
\* with that chunk_id are as many as before, stay where they are, and hold the
\* file_id, source, chunk_index, text, embedding and namespace of the (last)
\* tuple written for it.
C4_FullOverwrite ==
    [][\A t \in Tasks : Wrote(t) =>
         LET w == writes'[t][Len(writes'[t])]
             before == tables[w.table].rows
             after == tables'[w.table].rows
         IN  \A k \in DOMAIN w.values :
               RowsWith(before, w.values[k][1]) # {} =>
                 /\ RowsWith(after, w.values[k][1]) = RowsWith(before, w.values[k][1])
                 /\ \A i \in RowsWith(after, w.values[k][1]) :
                      LET v == w.values[CHOOSE m \in DOMAIN w.values :
                                   /\ w.values[m][1] = w.values[k][1]
                                   /\ \A j \in DOMAIN w.values :
                                        w.values[j][1] = w.values[k][1] => j <= m]
                      IN  /\ after[i].file_id = v[2]
                          /\ after[i].source = v[3]
                          /\ after[i].chunk_index = v[4]
                          /\ after[i].text = v[5]
                          /\ after[i].embedding = VectorIn(v[6])
                          /\ after[i].namespace = v[7]
                          /\ Len(after) = Len(before)
                               + Cardinality({w.values[m][1] : m \in DOMAIN w.values}
                                             \ {before[j].chunk_id : j \in DOMAIN before})]_vars

\* a task has just overwritten, in the embeddings table, a row that the upsert
\* before it had left with another content and another namespace
C4_Witness ==
    \E t \in Tasks :
        /\ pc[t] = "u_ns"
        /\ lastDone.valid
        /\ \E i \in DOMAIN lastDone.tables[Embeddings].rows :
             LET old == lastDone.tables[Embeddings].rows[i]
             IN  /\ old.chunk_id = data[t][1].chunk_id
                 /\ old.text # data[t][1].text
                 /\ old.file_id # data[t][1].file_id
                 /\ old.namespace # call[t].namespace
                 /\ GlobalRows[i].text = data[t][1].text
                 /\ GlobalRows[i].namespace = call[t].namespace

\* the tuple written for an item, with the namespace it was written under
TupleOf(item, namespace) ==
    <<item.chunk_id, item.file_id, item.source, item.chunk_index, item.text,
      _embedding_to_pgvector_string(item.embedding), namespace>>

WroteTo(t, table) == \E i \in DOMAIN writes[t] : writes[t][i].table = table

\* the upsert is one the claim expects to be copied
NonExempt(c) ==
    /\ c.copy_to_general
    /\ c.namespace # General
    /\ ~Contains(Totalsoft, Lower(c.namespace))

CopiedToGeneral(t) ==
    \A k \in DOMAIN data[t] :
        \E i \in DOMAIN writes[t] :
            /\ writes[t][i].table = General
            /\ \E m \in DOMAIN writes[t][i].values :
                 writes[t][i].values[m] = TupleOf(data[t][k], General)

\* C5 (as claimed): a non-exempt upsert with copy_to_general writes every chunk,
\* under namespace 'general', into the 'general' table; any other upsert writes
\* nothing to the 'general' table and nothing namespace-rewritten to embeddings.
C5_GatingAsClaimed ==
    \A t \in Tasks : (UpsertDone(t) /\ call[t].documents # <<>>) =>
        IF NonExempt(call[t])
        THEN CopiedToGeneral(t)
        ELSE /\ ~WroteTo(t, General)
             /\ \A i \in DOMAIN writes[t] : \A m \in DOMAIN writes[t][i].values :
                  writes[t][i].values[m][7] = call[t].namespace

\* C5 (amended): ... any other upsert performs its own two writes only, under its
\* own namespace: the embeddings table, then its namespace table (which is the
\* 'general' table when the namespace sanitizes to 'general').
C5_Gating ==
    \A t \in Tasks : (UpsertDone(t) /\ call[t].documents # <<>>) =>
        IF NonExempt(call[t])
        THEN CopiedToGeneral(t)
        ELSE writes[t] =
               <<[table |-> Embeddings, values |-> ValuesOf(data[t], call[t].namespace)],
                 [table |-> safe_namespace(t),
                  values |-> ValuesOf(data[t], call[t].namespace)]>>

C5_Witness ==
    /\ \E t \in Tasks : UpsertDone(t) /\ call[t].namespace = NsExempt
                        /\ call[t].copy_to_general /\ Len(writes[t]) = 2
    /\ lastDone.valid /\ lastDone.call.namespace = NsAlice
    /\ lastDone.call.copy_to_general
    /\ lastDone.tables[General].rows # <<>>

\* the store of `namespace` reads the item back from the embeddings table
ReadableThrough(namespace, item) ==
    /\ \E r \in SeqToSet(RowsByFileId(namespace, item.file_id)) : HoldsItem(r, item)
    /\ \E r \in SeqToSet(RowsOfNamespace(namespace)) : HoldsItem(r, item)
    /\ count_by_file_id(namespace, item.file_id) > 0

\* C6 (as claimed): after a copying upsert from a non-exempt namespace N every
\* chunk of the batch is readable through N's store and through 'general'.
C6_CopyIsAdditive ==
    \A t \in Tasks : (UpsertDone(t) /\ NonExempt(call[t])) =>
        \A k \in DOMAIN data[t] :
            LET item == LastWith(data[t], data[t][k].chunk_id)
            IN  /\ ReadableThrough(call[t].namespace, item)
                /\ ReadableThrough(General, item)

-----------------------------------------------------------------------------
(* Uniqueness of chunk_id and the repair of a table that lacks it. *)

\* C3: a table for which create_embeddings_table or create_namespace_table has
\* returned successfully never holds two rows with the same chunk_id, whatever
\* upserts and deletes run, in whatever interleaving.
C3_UniqueOnceCreated ==
    \A table \in ensured : ~HasDuplicates(tables[table].rows)

\* a second task is in the middle of an upsert or delete on a repaired table,
\* to which an upsert has just written a chunk_id
C3_Witness ==
    \E t \in Tasks, o \in Tasks :
        /\ t # o
        /\ call[t].op = "upsert_documents" /\ pc[t] = "done" /\ outcome[t] = "ok"
        /\ call[o].op \in {"upsert_documents", "delete_by_chunk_ids"}
        /\ pc[o] \in {"u_ns", "d_ns"}
        /\ Embeddings \in ensured /\ NsAlice \in ensured
        /\ Cardinality(RowsWith(tables[NsAlice].rows, C1id)) = 1
        /\ Len(tables[NsAlice].rows) > 1

\* the row of its chunk_id group that the repair is to keep: none of the group
\* is newer, and none as new sits at a later position
Survivor(rows, i) ==
    \A j \in RowsWith(rows, rows[i].chunk_id) \ {i} :
        \/ rows[j].created_at < rows[i].created_at
        \/ rows[j].created_at = rows[i].created_at /\ j < i

DedupResult(before, after) ==
    /\ \A c \in {before[i].chunk_id : i \in DOMAIN before} :
          /\ Cardinality(RowsWith(after, c)) = 1
          /\ \E i \in RowsWith(before, c) :
                /\ Survivor(before, i)
                /\ after[CHOOSE k \in RowsWith(after, c) : TRUE] = before[i]
    /\ \A k \in DOMAIN after : \E i \in DOMAIN before : after[k] = before[i]
    /\ \A i \in DOMAIN before :
          Cardinality(RowsWith(before, before[i].chunk_id)) = 1
              => \E k \in DOMAIN after : after[k] = before[i]

\* task t's _deduplicate_chunk_id statement runs in this step
Deduplicates(t) == pc[t] = "uq_dedup" /\ pc'[t] = "uq_retry"

\* C7: the deduplication leaves exactly one row per chunk_id that was present,
\* the one with the greatest created_at and, among those tied, the one at the
\* later physical position; rows whose chunk_id was unique stay as they were.
C7_DedupKeepsLatest ==
    [][\A t \in Tasks :
          Deduplicates(t) =>
              DedupResult(tables[uq[t].table].rows, tables'[uq[t].table].rows)]_vars

\* a repair has just deduplicated a table that held three rows of one chunk_id,
\* two of them tied on the greatest created_at
C7_Witness ==
    \E t \in Tasks :
        /\ pc[t] = "uq_retry"
        /\ uq[t].table = Embeddings
        /\ tables[Embeddings].rows = <<LegacyRow(3, C1id, 1, General)>>
        /\ ~tables[Embeddings].uniq
        /\ \A o \in Tasks \ {t} : pc[o] = "idle" /\ calls = 1

Count(q, x) == Cardinality({i \in DOMAIN q : q[i] = x})

\* one invocation of _ensure_unique_index_on_chunk_id went one of the ways of
\* the protocol, as far as it got
RepairProtocol(t) ==
    LET trail == uq[t].trail IN
    /\ Count(trail, "create_ok") + Count(trail, "create_failed") <= 2
    /\ Count(trail, "dedup_ok") + Count(trail, "dedup_failed") <= 1
    /\ \A i \in DOMAIN trail :
          trail[i] \in {"dedup_ok", "dedup_failed"} => i = 2 /\ trail[1] = "create_failed"
    /\ \A i \in DOMAIN trail : trail[i] = "create_ok" => i = Len(trail)
    /\ (Len(trail) = 3 /\ trail[3] = "create_failed") \/ (Len(trail) = 2 /\ trail[2] = "dedup_failed")
          => pc[t] = "done" /\ outcome[t] = "raised"
    /\ Len(trail) >= 2 /\ trail[2] = "dedup_failed" => Len(trail) = 2

\* task t's first CREATE UNIQUE INDEX succeeds in this step
FirstAttemptSucceeds(t) ==
    pc[t] = "uq_first" /\ uq'[t].trail = <<"create_ok">>

\* C8: _ensure_unique_index_on_chunk_id tries the index at most twice and
\* deduplicates at most once, only after a failed first attempt; a first attempt
\* that succeeds deletes no row; a failing retry or deduplication is raised, so
\* no table is reported created without its unique index.
C8_RepairProtocol ==
    /\ [](\A t \in Tasks : RepairProtocol(t))
    /\ [](\A table \in ensured : tables[table].uniq)
    /\ [](\A t \in Tasks :
            call[t].op = "create_embeddings_table" /\ pc[t] = "done" /\ outcome[t] = "ok"
                => tables[Embeddings].uniq)
    /\ [][\A t \in Tasks :
            FirstAttemptSucceeds(t) => tables'[uq[t].table].rows = tables[uq[t].table].rows]_vars

\* a repair whose retry failed has raised, leaving the table without unique index
C8_Witness ==
    \E t \in Tasks :
        /\ uq[t].trail = <<"create_failed", "dedup_ok", "create_failed">>
        /\ pc[t] = "done" /\ outcome[t] = "raised"
        /\ ~tables[uq[t].table].uniq
        /\ uq[t].table \notin ensured

-----------------------------------------------------------------------------
(* The connection pool. *)

\* the task's get_pool has returned a pool to its caller
GotPool(t) == call[t].op = "get_pool" /\ pc[t] = "done" /\ outcome[t] = "ok"

\* C9 (as claimed): while no pool has been closed, tasks that call get_pool
\* concurrently make one pool between them and all receive it: no second pool
\* is created, none is left open that cls.pool does not hold.
C9_SingleFlight ==
    poolsOpen = 1..poolsMade =>
        /\ poolsMade <= 1
        /\ \A t \in Tasks : GotPool(t) => got[t].pool = pool

\* a get_pool call of this step creates a pool
Creates == poolsMade' = poolsMade + 1

\* task t's call of this step returns
Returns(t, op) == call[t].op = op /\ pc[t] # "done" /\ pc'[t] = "done" /\ outcome'[t] = "ok"

\* task t makes the call in this step
Calls(t, op) == pc[t] = "idle" /\ call'[t].op = op

-----------------------------------------------------------------------------
(* The schema operations under concurrency and over older tables. *)

\* the embeddings table as create_embeddings_table is to leave it
Migrated(tb) ==
    /\ tb.exists
    /\ {"namespace", "file_id"} \subseteq tb.cols
    /\ {"namespace", "file_id"} \subseteq tb.idx
    /\ tb.uniq

\* task t's create_embeddings_table is over
CreateEmbeddingsOver(t) == call[t].op = "create_embeddings_table" /\ pc[t] = "done"

\* C11 (as claimed): with no statement failing for a reason of the server's own,
\* every create_embeddings_table call, whatever runs beside it, ends by returning
\* successfully with the table and its two columns in place; a creation step that
\* finds its object in place is not surfaced as an error.
C11_SchemaRaceSafe ==
    faults = 0 =>
        \A t \in Tasks :
            CreateEmbeddingsOver(t) =>
                /\ outcome[t] = "ok"
                /\ tables[Embeddings].exists
                /\ {"namespace", "file_id"} \subseteq tables[Embeddings].cols

\* C12 (as claimed): whenever create_embeddings_table has returned successfully,
\* whatever the embeddings table was before the call, the table has the namespace
\* and file_id columns, a secondary index on each of them and the unique index on
\* chunk_id.
C12_MigrationPostcondition ==
    \A t \in Tasks :
        (CreateEmbeddingsOver(t) /\ outcome[t] = "ok") => Migrated(tables[Embeddings])

-----------------------------------------------------------------------------
(* Reads. *)

\* task t's similarity_search has returned
SearchDone(t) ==
    pc[t] = "done" /\ outcome[t] = "ok" /\ call[t].op = "similarity_search"

\* the query embedding of task t's search
QueryOf(t) == embed_query(call[t].query)

\* document d reports global row number i with its similarity to the query of t
FromRow(t, d, i) ==
    LET row == GlobalRows[i] IN
    /\ d.page_content = row.text
    /\ d.chunk_id = row.chunk_id
    /\ d.file_id = row.file_id
    /\ d.source = row.source
    /\ d.chunk_index = row.chunk_index
    /\ d.similarity = Scale - CosineDistance(row.embedding, QueryOf(t))

Supplied(x) == x # Null /\ x # Empty

\* the filter of task t's search as it is documented
PassesFilter(t, row) ==
    /\ Supplied(call[t].filter_file_id) => row.file_id = call[t].filter_file_id
    /\ (~Supplied(call[t].filter_file_id) /\ Supplied(call[t].filter_source))
           => row.source = call[t].filter_source

\* the global rows of the store's namespace that pass the filter of t's search
Matching(t) ==
    {i \in DOMAIN GlobalRows :
        GlobalRows[i].namespace = call[t].namespace /\ PassesFilter(t, GlobalRows[i])}

DistanceOf(t, i) == CosineDistance(GlobalRows[i].embedding, QueryOf(t))

\* the ways to read the result of t's search as a choice of matching rows
Choices(t) ==
    LET docs == result[t].documents IN
    {f \in [DOMAIN docs -> Matching(t)] :
        /\ \A i, j \in DOMAIN docs : i # j => f[i] # f[j]
        /\ \A i \in DOMAIN docs : FromRow(t, docs[i], f[i])}

\* C13: a similarity_search that has returned holds min(k, matching rows) chunks,
\* each taken from a different global row of the store's namespace that passes
\* the filter; no row left out is nearer to the query than a row returned, and
\* the similarities never increase along the result.
C13_NearestFirst ==
    \A t \in Tasks :
        SearchDone(t) =>
            LET docs == result[t].documents IN
            /\ Len(docs) = MinOf(call[t].k, Cardinality(Matching(t)))
            /\ \E f \in Choices(t) :
                 \A i \in DOMAIN docs, j \in Matching(t) \ {f[x] : x \in DOMAIN docs} :
                     DistanceOf(t, f[i]) <= DistanceOf(t, j)
            /\ \A i, j \in DOMAIN docs : i < j => docs[i].similarity >= docs[j].similarity
            /\ \A i \in DOMAIN docs : docs[i].namespace = call[t].namespace

\* a search returned k > 1 chunks and left out a matching row that is farther away
C13_Witness ==
    \E t \in Tasks :
        /\ SearchDone(t)
        /\ call[t].k > 1 /\ Len(result[t].documents) = call[t].k
        /\ \E f \in Choices(t) :
             \E j \in Matching(t) \ {f[x] : x \in DOMAIN f} :
                 \A i \in DOMAIN f : DistanceOf(t, f[i]) < DistanceOf(t, j)

\* C14: in a similarity_search that has returned, with filter_file_id supplied
\* the chunks are drawn from all rows of the namespace with that file_id and
\* from no other, whatever filter_source is; with only filter_source supplied,
\* from all rows with that source; with neither, from all rows of the namespace.
C14_FilterPrecedence ==
    \A t \in Tasks :
        SearchDone(t) =>
            LET c == call[t]
                docs == result[t].documents
                OfNamespace == {i \in DOMAIN GlobalRows : GlobalRows[i].namespace = c.namespace}
                eligible ==
                    IF Supplied(c.filter_file_id)
                    THEN {i \in OfNamespace : GlobalRows[i].file_id = c.filter_file_id}
                    ELSE IF Supplied(c.filter_source)
                    THEN {i \in OfNamespace : GlobalRows[i].source = c.filter_source}
                    ELSE OfNamespace
            IN  /\ Len(docs) = MinOf(c.k, Cardinality(eligible))
                /\ \A i \in DOMAIN docs : \E j \in eligible : FromRow(t, docs[i], j)

\* a search with both filters returned chunks while the namespace held a row of
\* the given source under another file_id
C14_Witness ==
    \E t \in Tasks :
        /\ SearchDone(t)
        /\ Supplied(call[t].filter_file_id) /\ Supplied(call[t].filter_source)
        /\ result[t].documents # <<>>
        /\ \E i \in DOMAIN GlobalRows :
             /\ GlobalRows[i].namespace = call[t].namespace
             /\ GlobalRows[i].source = call[t].filter_source
             /\ GlobalRows[i].file_id # call[t].filter_file_id

-----------------------------------------------------------------------------
(* Deletes. *)

\* task t's delete of the named kind has returned
DeleteDone(t, op) == pc[t] = "done" /\ outcome[t] = "ok" /\ call[t].op = op

\* the rows whose chunk_id is not among ids, as they were
NotAmong(rows, ids) ==
    LET Other(row) == row.chunk_id \notin SeqToSet(ids) IN SelectSeq(rows, Other)

\* task t's delete_by_chunk_ids executes a statement
ChunkIdsStatement(t) ==
    /\ call[t].op = "delete_by_chunk_ids"
    /\ pc[t] \in {"d_main", "d_ns"}
    /\ pc'[t] # pc[t]

\* C15: once delete_by_chunk_ids(ids) of a store has returned, neither the
\* global table (under whatever namespace) nor the store's own table holds a row
\* with a chunk_id in ids; its statements take nothing else away: the rows of
\* these two tables with other chunk_ids stay as they were, in their order, and
\* no other table changes.
C15_DeleteByChunkIdsScope ==
    /\ [](\A t \in Tasks :
            DeleteDone(t, "delete_by_chunk_ids") =>
                \A n \in {Embeddings, safe_namespace(t)} :
                    \A i \in DOMAIN tables[n].rows :
                        tables[n].rows[i].chunk_id \notin SeqToSet(call[t].arg))
    /\ [][\A t \in Tasks :
            ChunkIdsStatement(t) =>
                /\ \A n \in {Embeddings, safe_namespace(t)} :
                       NotAmong(tables'[n].rows, call[t].arg) = NotAmong(tables[n].rows, call[t].arg)
                /\ \A n \in TableNames \ {Embeddings, safe_namespace(t)} :
                       tables'[n] = tables[n]]_vars

\* a delete_by_chunk_ids from one namespace has returned after taking from the
\* global table a row that the preceding upsert left under another namespace,
\* while rows with other chunk_ids are still in both tables
C15_Witness ==
    \E t \in Tasks :
        /\ DeleteDone(t, "delete_by_chunk_ids")
        /\ lastDone.valid
        /\ \E i \in DOMAIN lastDone.tables[Embeddings].rows :
             LET row == lastDone.tables[Embeddings].rows[i] IN
             /\ row.chunk_id \in SeqToSet(call[t].arg)
             /\ row.namespace # call[t].namespace
        /\ tables[Embeddings].rows # <<>>
        /\ tables[safe_namespace(t)].rows # <<>>

\* the store is in the state from which SpecDelete starts
StoredReached == Quiet /\ tables = StoredTables /\ lastDone = StoredLastDone

\* every row of a namespace table is in the global table with the same fields,
\* and every row of the global table is in its namespace's table with the same
\* fields
Mirrored(tbs) ==
    /\ \A n \in NamespaceTables : \A r \in SeqToSet(tbs[n].rows) :
           \E g \in SeqToSet(tbs[Embeddings].rows) : SameFields(g, r)
    /\ \A g \in SeqToSet(tbs[Embeddings].rows) :
           \E r \in SeqToSet(tbs[_sanitize_namespace(g.namespace)].rows) : SameFields(g, r)

\* every chunk_id of a namespace table has a row in the global table, and every
\* chunk_id of the global table has a row in its namespace's table
MirroredByChunkId(tbs) ==
    /\ \A n \in NamespaceTables : \A r \in SeqToSet(tbs[n].rows) :
           \E g \in SeqToSet(tbs[Embeddings].rows) : g.chunk_id = r.chunk_id
    /\ \A g \in SeqToSet(tbs[Embeddings].rows) :
           \E r \in SeqToSet(tbs[_sanitize_namespace(g.namespace)].rows) :
               r.chunk_id = g.chunk_id

\* C16 (as claimed): a delete_by_file_id, delete_by_source or delete_by_chunk_ids
\* that started with every table pair mirrored and has returned leaves every
\* chunk_id of a namespace table with a row in the global table, and every
\* chunk_id of the global table with a row in its namespace's table.
C16_DeletesKeepMirroring ==
    \A t \in Tasks :
        /\ \E op \in {"delete_by_file_id", "delete_by_source", "delete_by_chunk_ids"} :
               DeleteDone(t, op)
        /\ lastDone.valid
        /\ Mirrored(lastDone.tables)
        => MirroredByChunkId(tables)

-----------------------------------------------------------------------------
(* count_by_file_id. *)

\* task t's count_by_file_id has returned
CountDone(t) == pc[t] = "done" /\ outcome[t] = "ok" /\ call[t].op = "count_by_file_id"

\* how many global rows of this namespace have the value x in the named column
CountWhere(namespace, column, x) ==
    Cardinality({i \in DOMAIN GlobalRows :
                    GlobalRows[i].namespace = namespace /\ GlobalRows[i][column] = x})

HasSlash(x) == \E i \in DOMAIN x : x[i] \in {"/", "\\"}

\* C17: count_by_file_id(x) returns the number of global rows of the store's
\* namespace with file_id = x when that number is positive or x holds neither
\* '/' nor '\', and otherwise the number of global rows of the store's
\* namespace with source = x.
C17_FallbackCounting ==
    \A t \in Tasks :
        CountDone(t) =>
            LET byFileId == CountWhere(call[t].namespace, "file_id", call[t].arg)
                bySource == CountWhere(call[t].namespace, "source", call[t].arg)
            IN  result[t].count = IF byFileId > 0 \/ ~HasSlash(call[t].arg)
                                  THEN byFileId ELSE bySource

\* a count fell back to the source column and counted fewer rows than the
\* global table holds with that source: the others are another namespace's
C17_Witness ==
    \E t \in Tasks :
        /\ CountDone(t)
        /\ HasSlash(call[t].arg)
        /\ CountWhere(call[t].namespace, "file_id", call[t].arg) = 0
        /\ result[t].count > 0
        /\ \E i \in DOMAIN GlobalRows :
             GlobalRows[i].source = call[t].arg /\ GlobalRows[i].namespace # call[t].namespace

-----------------------------------------------------------------------------
(* Connections. *)

\* between operations and at their end no connection is held
NoneHeldAtEnd == \A t \in Tasks : pc[t] \in {"idle", "done"} => conns[t] = 0

\* C18 (as claimed): a task never holds more than one connection of the pool,
\* and holds none when its operation has ended, by returning or by raising.
C18_ScopedConnections ==
    /\ \A t \in Tasks : conns[t] <= 1
    /\ NoneHeldAtEnd

-----------------------------------------------------------------------------
(* Failure of the second of two writes. *)

\* task t's operation of the named kind has raised
Broken(t, op) == pc[t] = "done" /\ outcome[t] = "raised" /\ call[t].op = op

\* the step of t at the given await ends t's operation with an exception, and
\* no table changes in it
RaisesLeavingTables(t) ==
    /\ pc'[t] = "done"
    /\ outcome'[t] = "raised"
    /\ tables' = tables
    /\ writes' = writes

\* the global table holds every chunk of t's batch as t wrote it
GlobalHoldsBatch(t) ==
    \A k \in DOMAIN data[t] :
        LET item == LastWith(data[t], data[t][k].chunk_id) IN
        \E g \in SeqToSet(GlobalRows) : HoldsItem(g, item) /\ g.namespace = call[t].namespace

\* the global table holds no row that t's delete was to remove from it
GlobalDeletionStands(t) ==
    \A g \in SeqToSet(GlobalRows) :
        /\ Broken(t, "delete_by_file_id")
               => ~(g.namespace = call[t].namespace /\ g.file_id = call[t].arg)
        /\ Broken(t, "delete_by_source")
               => ~(g.namespace = call[t].namespace /\ g.source = call[t].arg)
        /\ Broken(t, "delete_by_chunk_ids") => g.chunk_id \notin SeqToSet(call[t].arg)

\* C19: when the namespace-table write of an upsert fails, the step that fails
\* ends the upsert with the exception and changes no table; the upsert has then
\* made its global-table write and no other, and the global table holds the
\* batch as written. When the second statement of a delete fails, the delete
\* ends with the exception and the global table stays without the rows the
\* first statement removed.
C19_PartialWriteNotMasked ==
    /\ [][\A t \in Tasks :
            /\ (pc[t] = "u_ns" /\ faults' # faults) => RaisesLeavingTables(t)
            /\ (pc[t] = "d_ns" /\ pc'[t] # "d_ns" /\ ~tables[safe_namespace(t)].exists)
                   => RaisesLeavingTables(t)]_vars
    /\ [](\A t \in Tasks :
            /\ Broken(t, "upsert_documents") =>
                   /\ Len(writes[t]) = 1
                   /\ writes[t][1].table = Embeddings
                   /\ GlobalHoldsBatch(t)
            /\ GlobalDeletionStands(t))

\* an upsert has raised on its namespace-table write: the batch is in the global
\* table and not in the namespace table
C19_Witness ==
    \E t \in Tasks :
        /\ Broken(t, "upsert_documents")
        /\ faults = 1
        /\ GlobalHoldsBatch(t)
        /\ \A k \in DOMAIN data[t] :
               \A r \in SeqToSet(tables[safe_namespace(t)].rows) :
                   r.chunk_id # data[t][k].chunk_id

-----------------------------------------------------------------------------
(* The empty upsert. *)

\* task t runs an upsert_documents with an empty document list
EmptyUpsert(t) == call[t].op = "upsert_documents" /\ call[t].documents = <<>>

\* C20: an upsert_documents with an empty document list returns in its first
\* step: it never waits for the embedding function, it enters neither get_pool
\* nor create_namespace_table, it acquires no connection, and it leaves every
\* table, the pool and the count of generated identities as they were.
C20_EmptyUpsertNoOp ==
    /\ [](\A t \in Tasks :
            EmptyUpsert(t) =>
                /\ pc[t] = "done" /\ outcome[t] = "ok"
                /\ data[t] = <<>> /\ writes[t] = <<>>
                /\ conns[t] = 0 /\ frames[t] = <<>> /\ got[t] = NoGot)
    /\ [][\A t \in Tasks :
            (EmptyUpsert(t)' /\ pc[t] = "idle") =>
                /\ tables' = tables
                /\ ensured' = ensured
                /\ uuids' = uuids
                /\ conns' = conns
                /\ <<pool, poolsMade, poolsOpen>>' = <<pool, poolsMade, poolsOpen>>]_vars

\* an empty upsert has returned on a store whose namespace table was never
\* created
C20_Witness ==
    \E t \in Tasks :
        /\ EmptyUpsert(t)
        /\ pc[t] = "done"
        /\ ~tables[safe_namespace(t)].exists

-----------------------------------------------------------------------------
(* Concurrent upserts. *)

\* C21 (as claimed): once two upserts of one namespace, neither of them copying
\* to 'general', have both completed successfully, every chunk_id they wrote has
\* the same field values in its global-table row and in its namespace-table row.
C21_ConcurrentUpsertsConverge ==
    \A t, o \in Tasks :
        /\ t # o
        /\ UpsertDone(t) /\ UpsertDone(o)
        /\ call[t].namespace = call[o].namespace
        /\ ~call[t].copy_to_general /\ ~call[o].copy_to_general
        => \A k \in DOMAIN data[t] :
               \A g \in SeqToSet(GlobalRows), r \in SeqToSet(tables[safe_namespace(t)].rows) :
                   (g.chunk_id = data[t][k].chunk_id /\ r.chunk_id = data[t][k].chunk_id)
                       => SameFields(g, r)

\* a task that holds a connection waits for another one
WaitsHolding(t) == conns[t] > 0 /\ pc[t] \in {"cnt_acquire", "u_acquire", "d_acquire", "r_acquire"}

\* C22 (as claimed): the connections of the pool are never all held by tasks
\* that are themselves waiting to acquire another connection.
C22_NoPoolDeadlock ==
    ~(/\ FreeConns = 0
      /\ \A t \in Tasks : conns[t] > 0 => WaitsHolding(t))

-----------------------------------------------------------------------------
(* Deletes by file_id and by source, seen from another namespace. *)

\* the rows stored under a namespace other than the given one, as they are
OfOthers(rows, namespace) ==
    LET Other(row) == row.namespace # namespace IN SelectSeq(rows, Other)

\* C23 (as claimed): a delete_by_file_id or delete_by_source that has returned
\* has left every row stored under another namespace string as it was, in the
\* global table and in every namespace table.
C23_ScopedDeletesSpareOthers ==
    \A t \in Tasks :
        /\ DeleteDone(t, "delete_by_file_id") \/ DeleteDone(t, "delete_by_source")
        /\ lastDone.valid
        => \A n \in TableNames :
               OfOthers(tables[n].rows, call[t].namespace)
                   = OfOthers(lastDone.tables[n].rows, call[t].namespace)

-----------------------------------------------------------------------------
(* The order of schema operations and writes within an upsert. *)

\* the table on which task t has an executemany under way, if any
WritingTo(t) ==
    IF pc[t] \in {"u_main", "u_gen_main"} THEN {Embeddings}
    ELSE IF pc[t] = "u_ns" THEN {safe_namespace(t)}
    ELSE IF pc[t] = "u_gen_ns" THEN {_sanitize_namespace(General)}
    ELSE {}

\* C24: whenever an upsert has a write under way on a table (the embeddings
\* table, its namespace table, the 'general' table of a copy), the schema
\* operation of that table has returned successfully before, and the table has
\* its unique index on chunk_id.
C24_EnsuredBeforeWritten ==
    \A t \in Tasks : \A n \in WritingTo(t) :
        /\ n \in ensured
        /\ tables[n].exists /\ tables[n].uniq

\* a copying upsert is about to write the 'general' table, which it has created
\* itself
C24_Witness ==
    \E t \in Tasks :
        /\ pc[t] = "u_gen_ns"
        /\ call[t].namespace # General
        /\ tables[_sanitize_namespace(General)].rows = <<>>
        /\ Len(writes[t]) = 3

-----------------------------------------------------------------------------
(* The identity of a chunk. *)

\* the chunk_ids stored in any table
IdsInUse == UNION {{tables[n].rows[i].chunk_id : i \in DOMAIN tables[n].rows} : n \in TableNames}

\* document d brings a chunk_id of its own
BringsId(d) == "chunk_id" \in DOMAIN d.metadata /\ d.metadata.chunk_id # Empty

\* C25: when an upsert prepares its data, a chunk that brings a chunk_id keeps
\* exactly that chunk_id, and a chunk that brings none (absent or empty) gets
\* one that no table holds, that no chunk of the batch brings and that no other
\* chunk of the batch is given; every write of the upsert, to the global table,
\* to the namespace table and to the 'general' copies, carries these chunk_ids.
C25_GeneratedIdentity ==
    /\ [][\A t \in Tasks :
            (pc[t] = "u_embed" /\ pc'[t] # "u_embed") =>
                LET docs == call[t].documents
                    items == data'[t]
                IN  /\ Len(items) = Len(docs)
                    /\ \A k \in DOMAIN docs :
                         IF BringsId(docs[k])
                         THEN items[k].chunk_id = docs[k].metadata.chunk_id
                         ELSE /\ items[k].chunk_id \notin IdsInUse
                              /\ \A j \in DOMAIN docs :
                                   /\ BringsId(docs[j]) =>
                                          items[k].chunk_id # docs[j].metadata.chunk_id
                                   /\ j # k => items[k].chunk_id # items[j].chunk_id]_vars
    /\ [](\A t \in Tasks : \A w \in DOMAIN writes[t] :
            /\ Len(writes[t][w].values) = Len(data[t])
            /\ \A k \in DOMAIN data[t] : writes[t][w].values[k][1] = data[t][k].chunk_id)

\* a copying upsert has made its four writes for a batch with a chunk that
\* brought no chunk_id, while the tables held a generated identity already
C25_Witness ==
    \E t \in Tasks :
        /\ UpsertDone(t)
        /\ Len(writes[t]) = 4
        /\ \E k \in DOMAIN data[t] :
             /\ ~BringsId(call[t].documents[k])
             /\ \E n \in TableNames : \E i \in DOMAIN tables[n].rows :
                  /\ tables[n].rows[i].chunk_id # data[t][k].chunk_id
                  /\ tables[n].rows[i].chunk_id \in {Uuid(u) : u \in 1..MaxUuid}

-----------------------------------------------------------------------------
(* created_at. *)

\* C26: in every step, a row of any table whose chunk_id the table held before
\* the step keeps the created_at it had, whatever else of it is overwritten,
\* and a row whose chunk_id the table did not hold has the time of the step.
C26_CreatedAtFixed ==
    [][\A n \in TableNames : \A i \in DOMAIN tables'[n].rows :
          LET row == tables'[n].rows[i]
              before == {j \in DOMAIN tables[n].rows :
                            tables[n].rows[j].chunk_id = row.chunk_id}
          IN  IF before = {} THEN row.created_at = now
              ELSE \A j \in before : row.created_at = tables[n].rows[j].created_at]_vars

\* an upsert has overwritten the text of a row that was inserted at an earlier
\* time
C26_Witness ==
    \E t \in Tasks :
        /\ UpsertDone(t)
        /\ lastDone.valid
        /\ data[t] # <<>>
        /\ \E g \in SeqToSet(GlobalRows), old \in SeqToSet(lastDone.tables[Embeddings].rows) :
             /\ g.chunk_id = data[t][1].chunk_id
             /\ old.chunk_id = g.chunk_id
             /\ old.text # g.text
             /\ g.created_at < now

-----------------------------------------------------------------------------
(* The namespace of the rows of a namespace table. *)

\* every row of a namespace table has a namespace that sanitizes to the table
InOwnTable ==
    \A n \in NamespaceTables : \A r \in SeqToSet(tables[n].rows) :
        _sanitize_namespace(r.namespace) = n

\* C27 (as claimed): every row of a namespace table has a namespace that
\* sanitizes to the table's name, and every row of the 'general' table has the
\* namespace 'general'.
C27_OwnTableAsClaimed ==
    /\ InOwnTable
    /\ \A r \in SeqToSet(tables[_sanitize_namespace(General)].rows) : r.namespace = General

\* C27: in every state upserts and deletes reach, every row of a namespace
\* table T has a stored namespace whose sanitized form is T; for the 'general'
\* table that is 'general' itself or a string that sanitizes to it.
C27_OwnTable ==
    /\ InOwnTable
    /\ \A r \in SeqToSet(tables[_sanitize_namespace(General)].rows) :
           r.namespace \in {ns \in Namespaces : _sanitize_namespace(ns) = General}

\* a copy has put a row into the 'general' table beside the row of its store
C27_Witness ==
    \E t \in Tasks :
        /\ UpsertDone(t)
        /\ Len(writes[t]) = 4
        /\ tables[safe_namespace(t)].rows # <<>>
        /\ \E r \in SeqToSet(tables[_sanitize_namespace(General)].rows) :
             r.chunk_id = data[t][1].chunk_id /\ r.namespace = General

-----------------------------------------------------------------------------
(* The two sanitizers. *)

\* both places have computed the table identifier of task t's store
Sanitized(t) == call[t].op = "__init__" /\ pc[t] = "done"

\* lowercase, then '-', ' ', '.', '@' each replaced by '_', one character at a time
SanitizedChar(c) == IF c \in {"-", " ", ".", "@"} THEN "_" ELSE LowerChar(c)

\* C28: the identifier create_namespace_table computes for a namespace is the
\* one the store computed with _sanitize_namespace, which is the namespace in
\* lowercase with '-', ' ', '.', '@' replaced by '_'; sanitizing it again
\* returns it unchanged.
C28_SanitizersAgree ==
    \A t \in Tasks :
        Sanitized(t) =>
            /\ writes[t] = data[t]
            /\ data[t] = [i \in DOMAIN call[t].namespace |-> SanitizedChar(call[t].namespace[i])]
            /\ _sanitize_namespace(data[t]) = data[t]
            /\ safe_namespace_of(data[t]) = data[t]

\* the identifier of a namespace with an upper-case letter and an '@' has been
\* computed in both places
C28_Witness ==
    \E t \in Tasks :
        /\ Sanitized(t)
        /\ \E i, j \in DOMAIN call[t].namespace :
             call[t].namespace[i] = "@" /\ call[t].namespace[j] = "A"
        /\ data[t] # call[t].namespace

====
